---- MODULE Spec2Model ----
(***************************************************************************)
(* Document artifact correlation and status engine of kt-studio (the       *)
(* Python Functions API under src/api).  Blob names, document bases and    *)
(* context text are TLA+ strings handled character by character, so that   *)
(* the naming codec and the context assembler are computed as the code     *)
(* computes them.                                                          *)
(***************************************************************************)
EXTENDS Integers, Sequences, FiniteSets, TLC

VARIABLES
    blobs,      \* container name -> listing (sequence of blob names) of the object store
    data,       \* <<container, blob name>> -> content of the stored object
    mem,        \* _IN_MEMORY_STORE of shared_blob.py: blob name -> content
    clock,      \* index of the UTC second save_uploaded_text reads next
    seen,       \* what the storage calls of the last request did and returned
    resp,       \* response of the last request handled
    codec,      \* naming codec under test: its input and what it returned
    asm,        \* context assembler under test: its input and what it returned
    log         \* the uploads answered with success so far: name, stored or not, savedAs, docName

vars == <<blobs, data, mem, clock, seen, resp, codec, asm, log>>

----------------------------------------------------------------------------
(* Python str primitives *)

None == "<None>"    \* Python's None; '<' and '>' occur in no modelled name or text

Char(s, i) == SubSeq(s, i, i)

UpperChars == "ABCDEFGHIJKLMNOPQRSTUVWXYZ"
LowerChars == "abcdefghijklmnopqrstuvwxyz"

\* str.isdigit holds for the ASCII decimal digits and also for other Unicode
\* digit characters (superscripts, circled digits); "^" stands for U+00B2.
SuperscriptTwo == "^"
DecimalChars == {"0", "1", "2", "3", "4", "5", "6", "7", "8", "9"}
DigitChars == DecimalChars \cup {SuperscriptTwo}

\* str.lower on one character
LowerTable ==
    [c \in { Char(UpperChars, i) : i \in 1..26 } |->
        Char(LowerChars, CHOOSE i \in 1..26 : Char(UpperChars, i) = c)]

LowerChar(c) == IF c \in DOMAIN LowerTable THEN LowerTable[c] ELSE c

\* str.lower (computed by halves, which keeps the evaluation shallow)
RECURSIVE lower(_)
lower(s) ==
    IF Len(s) = 0 THEN ""
    ELSE IF Len(s) = 1 THEN LowerChar(s)
    ELSE lower(SubSeq(s, 1, Len(s) \div 2)) \o lower(SubSeq(s, Len(s) \div 2 + 1, Len(s)))

isdigit(s) == s # "" /\ \A i \in 1..Len(s) : Char(s, i) \in DigitChars

endswith(s, suffix) ==
    /\ Len(s) >= Len(suffix)
    /\ SubSeq(s, Len(s) - Len(suffix) + 1, Len(s)) = suffix

\* s.rfind('.') over s[:i], 1-based; 0 when there is none
RECURSIVE rfind_dot(_, _)
rfind_dot(s, i) ==
    IF i = 0 THEN 0 ELSE IF Char(s, i) = "." THEN i ELSE rfind_dot(s, i - 1)

\* '.' in s
HasDot(s) == rfind_dot(s, Len(s)) > 0

\* s.rsplit('.', 1)[0] for an s that contains a '.'
rsplit_dot(s) == SubSeq(s, 1, rfind_dot(s, Len(s)) - 1)

\* s[:-n]
DropLast(s, n) == SubSeq(s, 1, Len(s) - n)

----------------------------------------------------------------------------
(* Naming codec: shared_blob.py _match_processed and _extract_doc_base *)

\* (mutant) a timestamp prefix is not stripped
match_processed_candidate_no_strip(blob_name) == blob_name

match_processed_candidate(blob_name) ==
    IF Len(blob_name) > 15 /\ isdigit(SubSeq(blob_name, 1, 14)) /\ Char(blob_name, 15) = "_"
    THEN SubSeq(blob_name, 16, Len(blob_name))
    ELSE blob_name

\* (mutant) the bases are compared without folding the letter case
match_processed_case_sensitive(doc_base, blob_name) ==
    LET candidate == match_processed_candidate(blob_name)
        core0 == IF endswith(candidate, ".video.json") THEN DropLast(candidate, 11)
                 ELSE IF endswith(candidate, ".quiz.json") THEN DropLast(candidate, 10)
                 ELSE candidate
        core == IF HasDot(core0) THEN rsplit_dot(core0) ELSE core0
    IN  core = doc_base

match_processed(doc_base, blob_name) ==
    LET candidate == match_processed_candidate(blob_name)
        core0 == IF endswith(candidate, ".video.json") THEN DropLast(candidate, 11)
                 ELSE IF endswith(candidate, ".quiz.json") THEN DropLast(candidate, 10)
                 ELSE candidate
        core == IF HasDot(core0) THEN rsplit_dot(core0) ELSE core0
    IN  lower(core) = lower(doc_base)

\* (mutant) the slice keeps the underscore: candidate[14:]
extract_doc_base_candidate_off_by_one(blob_name) ==
    IF Len(blob_name) > 15 /\ isdigit(SubSeq(blob_name, 1, 14)) /\ Char(blob_name, 15) = "_"
    THEN SubSeq(blob_name, 15, Len(blob_name))
    ELSE blob_name

extract_doc_base_candidate(blob_name) ==
    IF Len(blob_name) > 15 /\ isdigit(SubSeq(blob_name, 1, 14)) /\ Char(blob_name, 15) = "_"
    THEN SubSeq(blob_name, 16, Len(blob_name))
    ELSE blob_name

\* (mutant) the '.quiz.json' branch is missing
extract_doc_base_video_only(blob_name) ==
    LET candidate == extract_doc_base_candidate(blob_name)
        c1 == IF endswith(candidate, ".video.json") THEN DropLast(candidate, 11)
              ELSE candidate
    IN  IF HasDot(c1) THEN rsplit_dot(c1) ELSE c1

\* (mutant) the originating extension is kept
extract_doc_base_keep_extension(blob_name) ==
    LET candidate == extract_doc_base_candidate(blob_name)
    IN  IF endswith(candidate, ".video.json") THEN DropLast(candidate, 11)
        ELSE IF endswith(candidate, ".quiz.json") THEN DropLast(candidate, 10)
        ELSE candidate

extract_doc_base(blob_name) ==
    LET candidate == extract_doc_base_candidate(blob_name)
        c1 == IF endswith(candidate, ".video.json") THEN DropLast(candidate, 11)
              ELSE IF endswith(candidate, ".quiz.json") THEN DropLast(candidate, 10)
              ELSE candidate
    IN  IF HasDot(c1) THEN rsplit_dot(c1) ELSE c1

\* The external pipeline's canonical names (spec section 4.1, "Encoding").
encode(base, kind) ==
    IF kind = "video" THEN base \o ".video.json" ELSE base \o ".quiz.json"

----------------------------------------------------------------------------
(* Values of the variables a specification does not use *)

UPLOAD_CONTAINER == "uploaded-docs"
VIDEO_CONTAINER == "generated-videos"
VIDEO_FILE_CONTAINER == "generated-video-files"
QUIZ_CONTAINER == "quiz-data"
Containers == {UPLOAD_CONTAINER, VIDEO_CONTAINER, VIDEO_FILE_CONTAINER, QUIZ_CONTAINER}

EmptyStore == [c \in Containers |-> <<>>]
NoData == <<>>      \* the function with the empty domain
NoResp == [op |-> "none"]
CodecIdle == [step |-> "idle"]
AsmIdle == [step |-> "idle"]

----------------------------------------------------------------------------
(* Specification SpecCodec: the naming codec applied to names and bases *)

TimestampPrefix == "20250101120000_"

CodecPrefixes ==
    { "", TimestampPrefix,
      "2025010112000_",         \* 13 digits
      "20250101120000-",        \* 14 digits, no underscore
      "2025010112000x_",        \* a letter among the first 14
      "^^^^^^^^^^^^^^_" }       \* 14 non-decimal digit characters
CodecBodies == { "", "doc", "Doc", "a.b", "x" }
CodecSuffixes == { "", ".txt", ".video.json", ".quiz.json", ".txt.video.json", ".mp4", ".VIDEO.JSON" }

CodecNames == { p \o b \o s : p \in CodecPrefixes, b \in CodecBodies, s \in CodecSuffixes }
CodecBases == { "doc", "Doc", "a.b", "my doc", TimestampPrefix \o "doc", TimestampPrefix,
                "^^^^^^^^^^^^^^_doc", "2025010112000_doc" }
Kinds == { "video", "quiz" }

InitCodec ==
    /\ codec \in { [step |-> "input", name |-> n, base |-> b, kind |-> k,
                    candidate |-> None, mcandidate |-> None, decoded |-> None, matched |-> FALSE] :
                   n \in CodecNames, b \in CodecBases, k \in Kinds }
    /\ blobs = EmptyStore
    /\ data = NoData
    /\ mem = NoData
    /\ clock = 1
    /\ seen = EmptyStore
    /\ resp = NoResp
    /\ asm = AsmIdle
    /\ log = {}

\* The external pipeline names the manifest of codec.base.
CodecEncode ==
    /\ codec.step = "input"
    /\ codec' = [codec EXCEPT !.step = "encoded", !.name = encode(codec.base, codec.kind)]
    /\ UNCHANGED <<blobs, data, mem, clock, seen, resp, asm, log>>

\* _extract_doc_base(name) and _match_processed(base, name) are called.
CodecDecode ==
    /\ codec.step \in {"input", "encoded"}
    /\ codec' = [codec EXCEPT
            !.step = IF codec.step = "input" THEN "decoded" ELSE "roundtrip",
            !.candidate = extract_doc_base_candidate(codec.name),
            !.mcandidate = match_processed_candidate(codec.name),
            !.decoded = extract_doc_base(codec.name),
            !.matched = match_processed(codec.base, codec.name)]
    /\ UNCHANGED <<blobs, data, mem, clock, seen, resp, asm, log>>

NextCodec == CodecEncode \/ CodecDecode

SpecCodec == InitCodec /\ [][NextCodec]_vars

\* A name that begins with 14 characters str.isdigit accepts and a '_'.
HasTimestampPrefix(s) ==
    Len(s) >= 15 /\ isdigit(SubSeq(s, 1, 14)) /\ Char(s, 15) = "_"

\* A name whose first 14 characters are decimal digits and whose 15th is '_'.
HasDecimalPrefix(s) ==
    /\ Len(s) >= 15
    /\ \A i \in 1..14 : Char(s, i) \in DecimalChars
    /\ Char(s, 15) = "_"

\* C2 (as stated): for every base and kind, decoding the encoded name returns the base.
C2_RoundTripAnyBase ==
    codec.step = "roundtrip" => codec.decoded = codec.base

\* C2 (amended): for every base that contains no '.' and does not begin with 14
\* digit characters and '_', decoding '{b}.video.json' or '{b}.quiz.json' returns
\* exactly b, and _match_processed accepts the encoded name for b.
C2_RoundTrip ==
    (codec.step = "roundtrip" /\ ~HasDot(codec.base) /\ ~HasTimestampPrefix(codec.base))
        => (codec.decoded = codec.base /\ codec.matched)

C2_Witness ==
    /\ codec.step = "roundtrip"
    /\ codec.base = "my doc"
    /\ codec.name = "my doc.quiz.json"
    /\ codec.decoded = "my doc"

\* C3 (as stated): every name whose first 14 characters are decimal digits and
\* whose 15th is '_' loses exactly those 15 characters; every other name loses nothing.
C3_StripAnyLength ==
    codec.step \in {"decoded", "roundtrip"} =>
        LET expected == IF HasDecimalPrefix(codec.name)
                        THEN SubSeq(codec.name, 16, Len(codec.name))
                        ELSE codec.name
        IN  codec.candidate = expected /\ codec.mcandidate = expected

\* C3 (amended): a name of more than 15 characters whose first 14 characters all
\* satisfy str.isdigit and whose 15th is '_' loses exactly those 15 characters
\* before suffix and extension processing; every other name, the bare
\* 15-character prefix included, loses nothing from the front.
C3_Strip ==
    codec.step \in {"decoded", "roundtrip"} =>
        LET expected == IF Len(codec.name) > 15 /\ HasTimestampPrefix(codec.name)
                        THEN SubSeq(codec.name, 16, Len(codec.name))
                        ELSE codec.name
        IN  codec.candidate = expected /\ codec.mcandidate = expected

C3_Witness ==
    /\ codec.step = "decoded"
    /\ codec.name = "20250101120000_Doc.txt.video.json"
    /\ codec.candidate = "Doc.txt.video.json"
    /\ codec.decoded = "Doc"

----------------------------------------------------------------------------
(* Artifact locator and status: shared_blob.py _list_blobs,                *)
(* find_processed_artifacts; status/__init__.py main                       *)

ArtifactContainers == {VIDEO_CONTAINER, VIDEO_FILE_CONTAINER, QUIZ_CONTAINER}

\* How one call of _list_blobs goes: the listing is returned, there is no
\* client (_get_blob_service returned None), the container does not exist, or
\* get_container_client / exists / list_blobs raised.
ListModes == {"ok", "no_client", "absent", "error"}

\* (mutant) only the missing client and container are handled; an exception of
\* the storage client leaves _list_blobs
list_blobs_uncaught(store, container, mode) ==
    IF mode = "ok"
    THEN [raised |-> FALSE, names |-> store[container]]
    ELSE [raised |-> (mode = "error"), names |-> <<>>]

\* _list_blobs: what it returns, and whether an exception leaves it.
list_blobs(store, container, mode) ==
    IF mode = "ok"
    THEN [raised |-> FALSE, names |-> store[container]]
    ELSE [raised |-> FALSE, names |-> <<>>]

VideoExts == {".mp4", ".mov", ".mkv", ".webm"}
ImageExts == {".png", ".jpg", ".jpeg", ".webp"}

\* str.endswith with a tuple of suffixes
endswith_any(s, suffixes) == \E x \in suffixes : endswith(s, x)

\* for name in _list_blobs(VIDEO_CONTAINER): ... break
RECURSIVE scan_video(_, _, _)
scan_video(names, i, doc_base) ==
    IF i > Len(names) THEN None
    ELSE IF endswith(names[i], ".video.json") /\ match_processed(doc_base, names[i])
         THEN names[i]
         ELSE scan_video(names, i + 1, doc_base)

\* for name in _list_blobs(VIDEO_FILE_CONTAINER): ... (no break)
RECURSIVE scan_files(_, _, _, _, _)
scan_files(names, i, doc_base, video_file_blob, thumbnail_blob) ==
    IF i > Len(names) THEN <<video_file_blob, thumbnail_blob>>
    ELSE LET name == names[i]
             lowered == lower(name)
         IN  IF endswith_any(lowered, VideoExts) /\ match_processed(doc_base, name)
             THEN scan_files(names, i + 1, doc_base, name, thumbnail_blob)
             ELSE IF endswith_any(lowered, ImageExts) /\ match_processed(doc_base, name)
                  THEN scan_files(names, i + 1, doc_base, video_file_blob,
                                  IF thumbnail_blob = None THEN name ELSE thumbnail_blob)
                  ELSE scan_files(names, i + 1, doc_base, video_file_blob, thumbnail_blob)

\* for name in _list_blobs(QUIZ_CONTAINER): ... break
RECURSIVE scan_quiz(_, _, _)
scan_quiz(names, i, doc_base) ==
    IF i > Len(names) THEN None
    ELSE IF endswith(names[i], ".quiz.json") /\ match_processed(doc_base, names[i])
         THEN names[i]
         ELSE scan_quiz(names, i + 1, doc_base)

\* The listings the three _list_blobs calls of one find_processed_artifacts get.
listings_of(store, modes) ==
    [c \in ArtifactContainers |-> list_blobs(store, c, modes[c])]

find_processed_artifacts(doc_base, listed) ==
    IF \E c \in ArtifactContainers : listed[c].raised
    THEN [raised |-> TRUE]
    ELSE LET files == scan_files(listed[VIDEO_FILE_CONTAINER].names, 1, doc_base, None, None)
         IN  [raised |-> FALSE,
              video |-> scan_video(listed[VIDEO_CONTAINER].names, 1, doc_base),
              videoFile |-> files[1],
              thumbnail |-> files[2],
              quiz |-> scan_quiz(listed[QUIZ_CONTAINER].names, 1, doc_base)]

\* (mutant) ready is derived from the video manifest alone
status_main_video_only(doc, listed) ==
    IF doc = ""
    THEN [op |-> "status", status |-> 400, error |-> "Missing docName"]
    ELSE LET found == find_processed_artifacts(doc, listed)
         IN  IF found.raised
             THEN [op |-> "status", status |-> 500, error |-> "exception"]
             ELSE LET artifacts == [video |-> found.video, videoFile |-> found.videoFile,
                                    thumbnail |-> found.thumbnail, quiz |-> found.quiz]
                      video_ready == artifacts.video # None
                      quiz_ready == artifacts.quiz # None
                      ready == video_ready
                  IN  [op |-> "status", status |-> 200, doc |-> doc,
                       video |-> video_ready, quiz |-> quiz_ready, ready |-> ready,
                       artifacts |-> artifacts]

\* (mutant) ready when either manifest was found
status_main_either(doc, listed) ==
    IF doc = ""
    THEN [op |-> "status", status |-> 400, error |-> "Missing docName"]
    ELSE LET found == find_processed_artifacts(doc, listed)
             artifacts == [video |-> found.video, videoFile |-> found.videoFile,
                           thumbnail |-> found.thumbnail, quiz |-> found.quiz]
             video_ready == artifacts.video # None
             quiz_ready == artifacts.quiz # None
         IN  [op |-> "status", status |-> 200, doc |-> doc,
              video |-> video_ready, quiz |-> quiz_ready,
              ready |-> video_ready \/ quiz_ready, artifacts |-> artifacts]

\* status/__init__.py main; an exception that leaves it is the host's 500.
status_main(doc, listed) ==
    IF doc = ""
    THEN [op |-> "status", status |-> 400, error |-> "Missing docName"]
    ELSE LET found == find_processed_artifacts(doc, listed)
         IN  IF found.raised
             THEN [op |-> "status", status |-> 500, error |-> "exception"]
             ELSE LET artifacts == [video |-> found.video, videoFile |-> found.videoFile,
                                    thumbnail |-> found.thumbnail, quiz |-> found.quiz]
                      video_ready == artifacts.video # None
                      quiz_ready == artifacts.quiz # None
                      ready == video_ready /\ quiz_ready
                  IN  [op |-> "status", status |-> 200, doc |-> doc,
                       video |-> video_ready, quiz |-> quiz_ready, ready |-> ready,
                       artifacts |-> artifacts]

----------------------------------------------------------------------------
(* Specification Spec: the external pipeline writes artifacts, status     *)
(* requests are served                                                     *)

MaxObjects == 3     \* objects the external pipeline writes in one behaviour

VideoPool == { "doc.video.json", "20250101120000_Doc.txt.video.json",
               "other.video.json", "doc.quiz.json" }
FilePool == { "doc.mp4", "Doc.MOV", "doc.png", "20250101120000_doc.JPG" }
QuizPool == { "doc.quiz.json", "DOC.pdf.quiz.json", "Doc.QUIZ.JSON" }

Pool(c) == IF c = VIDEO_CONTAINER THEN VideoPool
           ELSE IF c = VIDEO_FILE_CONTAINER THEN FilePool
           ELSE IF c = QUIZ_CONTAINER THEN QuizPool
           ELSE {}

StatusDocs == { "Doc", "other", "" }    \* the docName route parameter ("" when missing)

Range(f) == { f[i] : i \in DOMAIN f }

ObjectCount(store) == Len(store[VIDEO_CONTAINER]) + Len(store[VIDEO_FILE_CONTAINER])
                        + Len(store[QUIZ_CONTAINER]) + Len(store[UPLOAD_CONTAINER])

NoSeen == [failed |-> {},
           listed |-> listings_of(EmptyStore, [c \in ArtifactContainers |-> "ok"])]

Init ==
    /\ blobs = EmptyStore
    /\ data = NoData
    /\ mem = NoData
    /\ clock = 1
    /\ seen = NoSeen
    /\ resp = NoResp
    /\ codec = CodecIdle
    /\ asm = AsmIdle
    /\ log = {}

\* The external pipeline writes one object; the listing order is the store's.
\* The response of an earlier request has been delivered by then.
ExternalWrite(c, name, content) ==
    /\ ObjectCount(blobs) < MaxObjects
    /\ name \notin Range(blobs[c])
    /\ blobs' = [blobs EXCEPT ![c] = Append(@, name)]
    /\ data' = (<<c, name>> :> content) @@ data
    /\ seen' = NoSeen
    /\ resp' = NoResp
    /\ UNCHANGED <<mem, clock, codec, asm, log>>

\* The ways the listings of the containers in failed can fail.
FailureModes(failed) == IF failed = {} THEN {"ok"} ELSE ListModes \ {"ok"}

\* GET /status/{docName}; the listings of the containers in failed fail (why).
\* Without a docName the handler returns before any listing.
Status(doc, failed, why) ==
    LET modes == [c \in ArtifactContainers |-> IF c \in failed THEN why ELSE "ok"]
        listed == listings_of(blobs, modes)
    IN  /\ doc = "" => failed = {}
        /\ \A c \in failed : why = "absent" => blobs[c] = <<>>
        /\ seen' = IF doc = "" THEN NoSeen ELSE [failed |-> failed, listed |-> listed]
        /\ resp' = status_main(doc, listed)
        /\ UNCHANGED <<blobs, data, mem, clock, codec, asm, log>>

Next ==
    \/ \E c \in ArtifactContainers : \E name \in Pool(c) : ExternalWrite(c, name, "{}")
    \/ \E doc \in StatusDocs : \E failed \in SUBSET ArtifactContainers :
         \E why \in FailureModes(failed) : Status(doc, failed, why)

Spec == Init /\ [][Next]_vars

(* What the claims about the locator speak of *)

Fields == {"video", "videoFile", "thumbnail", "quiz"}

ContainerOf(field) ==
    IF field = "video" THEN VIDEO_CONTAINER
    ELSE IF field = "quiz" THEN QUIZ_CONTAINER
    ELSE VIDEO_FILE_CONTAINER

\* An object name is of the kind a field holds.
IsOfKind(field, name) ==
    IF field = "video" THEN endswith(name, ".video.json")
    ELSE IF field = "quiz" THEN endswith(name, ".quiz.json")
    ELSE IF field = "videoFile" THEN endswith_any(lower(name), VideoExts)
    ELSE endswith_any(lower(name), ImageExts)

\* The decoded base of name equals base, letter case ignored.
DecodesTo(name, base) == lower(extract_doc_base(name)) = lower(base)

\* Positions in a listing of the objects of field's kind that decode to base.
Matching(field, names, base) ==
    { i \in 1..Len(names) : IsOfKind(field, names[i]) /\ DecodesTo(names[i], base) }

Min(S) == CHOOSE x \in S : \A y \in S : x <= y

StatusAnswered == resp.op = "status" /\ resp.status = 200

\* C1 (as stated): ready is reported exactly when generated-videos holds a video
\* manifest and quiz-data holds a quiz manifest that both decode to the base.
C1_ReadyIffStored ==
    StatusAnswered =>
        (resp.ready <=>
            /\ Matching("video", blobs[VIDEO_CONTAINER], resp.doc) # {}
            /\ Matching("quiz", blobs[QUIZ_CONTAINER], resp.doc) # {})

\* C1 (amended): ready is reported exactly when the listings this status call
\* obtained of generated-videos and of quiz-data (a listing that fails counts as
\* empty) contain a video manifest and a quiz manifest that both decode to the
\* base; ready implies both are stored; and video == (artifacts.video != null),
\* quiz == (artifacts.quiz != null), ready == (video AND quiz).
C1_ReadyIffListed ==
    StatusAnswered =>
        /\ resp.ready <=>
            /\ Matching("video", seen.listed[VIDEO_CONTAINER].names, resp.doc) # {}
            /\ Matching("quiz", seen.listed[QUIZ_CONTAINER].names, resp.doc) # {}
        /\ resp.ready =>
            /\ Matching("video", blobs[VIDEO_CONTAINER], resp.doc) # {}
            /\ Matching("quiz", blobs[QUIZ_CONTAINER], resp.doc) # {}
        /\ resp.video = (resp.artifacts.video # None)
        /\ resp.quiz = (resp.artifacts.quiz # None)
        /\ resp.ready = (resp.video /\ resp.quiz)

C1_Witness ==
    /\ StatusAnswered
    /\ resp.doc = "Doc"
    /\ resp.ready
    /\ resp.artifacts.video = "20250101120000_Doc.txt.video.json"
    /\ resp.artifacts.quiz = "DOC.pdf.quiz.json"

\* C4: each field of the ArtifactSet is non-null exactly when its container's
\* listing contains an object of that kind decoding to the base, and a non-null
\* field names such an object of that listing.
C4_FieldIffMatch ==
    StatusAnswered =>
        \A f \in Fields :
            LET names == seen.listed[ContainerOf(f)].names
                hits == Matching(f, names, resp.doc)
            IN  /\ (resp.artifacts[f] # None) <=> (hits # {})
                /\ resp.artifacts[f] # None => \E i \in hits : names[i] = resp.artifacts[f]

C4_Witness ==
    /\ StatusAnswered
    /\ resp.doc = "Doc"
    /\ resp.artifacts.video = "doc.video.json"
    /\ resp.artifacts.thumbnail = "20250101120000_doc.JPG"
    /\ resp.artifacts.quiz = None
    /\ "Doc.QUIZ.JSON" \in Range(seen.listed[QUIZ_CONTAINER].names)

\* C5: every non-null field is the first object in listing order of its kind
\* that decodes to the base.
C5_FirstMatch ==
    StatusAnswered =>
        \A f \in Fields :
            LET names == seen.listed[ContainerOf(f)].names
                hits == Matching(f, names, resp.doc)
            IN  hits # {} => resp.artifacts[f] = names[Min(hits)]

\* C8: no exception leaves locate; a container whose listing fails counts as
\* empty, and the ArtifactSet is the one an empty container would have given.
C8_FailureIsEmpty ==
    (resp.op = "status" /\ resp.status # 400) =>
        LET emptied == [c \in Containers |-> IF c \in seen.failed THEN <<>> ELSE blobs[c]]
            allok == [c \in ArtifactContainers |-> "ok"]
            expected == find_processed_artifacts(resp.doc, listings_of(emptied, allok))
        IN  /\ resp.status = 200
            /\ \A f \in Fields : resp.artifacts[f] = expected[f]
            /\ \A c \in seen.failed : seen.listed[c].names = <<>>

C8_Witness ==
    /\ StatusAnswered
    /\ resp.doc = "Doc"
    /\ seen.failed = {QUIZ_CONTAINER}
    /\ "doc.quiz.json" \in Range(blobs[QUIZ_CONTAINER])
    /\ resp.artifacts.quiz = None
    /\ resp.artifacts.video = "doc.video.json"
    /\ resp.artifacts.videoFile = "doc.mp4"

----------------------------------------------------------------------------
(* Specification SpecPoll: a client polls the status of documents while    *)
(* the processing pipeline writes manifests in two naming forms            *)

PollBases == { "Project Alpha", "a.b", TimestampPrefix \o "x" }

\* '{timestamp}_{base}.{ext}.video.json' and '{base}.quiz.json'
MixedVideo(b) == TimestampPrefix \o b \o ".txt.video.json"
MixedQuiz(b) == b \o ".quiz.json"

PollWrites ==
    { <<VIDEO_CONTAINER, MixedVideo(b)>> : b \in PollBases }
        \cup { <<QUIZ_CONTAINER, MixedQuiz(b)>> : b \in PollBases }

\* The listings that fail in one status call
PollFailures == { {}, {QUIZ_CONTAINER} }

\* seen: the listings of the last status call, the response before it, whether
\* nothing was written between the two (quiet), and whether anything was
\* written since the last
NoPoll == [failed |-> {}, listed |-> NoSeen.listed, last |-> NoResp, lastfailed |-> {},
           quiet |-> TRUE, wrote |-> FALSE]

InitPoll ==
    /\ blobs = EmptyStore
    /\ data = NoData
    /\ mem = NoData
    /\ clock = 1
    /\ seen = NoPoll
    /\ resp = NoResp
    /\ codec = CodecIdle
    /\ asm = AsmIdle
    /\ log = {}

\* The pipeline writes a manifest; nothing notifies the engine.
PollWrite(c, name) ==
    /\ ObjectCount(blobs) < MaxObjects
    /\ name \notin Range(blobs[c])
    /\ blobs' = [blobs EXCEPT ![c] = Append(@, name)]
    /\ data' = (<<c, name>> :> "{}") @@ data
    /\ seen' = [seen EXCEPT !.wrote = TRUE]
    /\ UNCHANGED <<mem, clock, resp, codec, asm, log>>

\* (mutant) the answer for the document asked about last is kept
PollStatus_memoized(doc, failed, why) ==
    LET modes == [c \in ArtifactContainers |-> IF c \in failed THEN why ELSE "ok"]
        listed == listings_of(blobs, modes)
    IN  /\ \A c \in failed : why = "absent" => blobs[c] = <<>>
        /\ seen' = [failed |-> failed, listed |-> listed, last |-> resp,
                    lastfailed |-> seen.failed, quiet |-> ~seen.wrote, wrote |-> FALSE]
        /\ resp' = IF resp.op = "status" /\ resp.doc = doc THEN resp
                   ELSE status_main(doc, listed)
        /\ UNCHANGED <<blobs, data, mem, clock, codec, asm, log>>

\* (mutant) the listings are iterators kept between calls: a call that follows
\* another with no write in between finds them exhausted
PollStatus_exhausted_listing(doc, failed, why) ==
    LET modes == [c \in ArtifactContainers |->
                    IF c \in failed \/ (resp.op = "status" /\ ~seen.wrote) THEN why ELSE "ok"]
        listed == listings_of(blobs, modes)
    IN  /\ \A c \in failed : why = "absent" => blobs[c] = <<>>
        /\ seen' = [failed |-> failed, listed |-> listed, last |-> resp,
                    lastfailed |-> seen.failed, quiet |-> ~seen.wrote, wrote |-> FALSE]
        /\ resp' = status_main(doc, listed)
        /\ UNCHANGED <<blobs, data, mem, clock, codec, asm, log>>

\* GET /status/{docName}; the listings of the containers in failed fail (why).
PollStatus(doc, failed, why) ==
    LET modes == [c \in ArtifactContainers |-> IF c \in failed THEN why ELSE "ok"]
        listed == listings_of(blobs, modes)
    IN  /\ \A c \in failed : why = "absent" => blobs[c] = <<>>
        /\ seen' = [failed |-> failed, listed |-> listed, last |-> resp,
                    lastfailed |-> seen.failed, quiet |-> ~seen.wrote, wrote |-> FALSE]
        /\ resp' = status_main(doc, listed)
        /\ UNCHANGED <<blobs, data, mem, clock, codec, asm, log>>

NextPoll ==
    \/ \E w \in PollWrites : PollWrite(w[1], w[2])
    \/ \E doc \in PollBases : \E failed \in PollFailures : PollStatus(doc, failed, "error")

SpecPoll == InitPoll /\ [][NextPoll]_vars

\* resp is the answer of a status call and nothing was written since
Fresh == StatusAnswered /\ ~seen.wrote

\* exactly the two manifests of b are stored
MixedOnly(b) ==
    /\ blobs[VIDEO_CONTAINER] = <<MixedVideo(b)>>
    /\ blobs[QUIZ_CONTAINER] = <<MixedQuiz(b)>>
    /\ blobs[VIDEO_FILE_CONTAINER] = <<>>

MixedDecodeAndReady(b) ==
    /\ extract_doc_base(MixedVideo(b)) = b
    /\ extract_doc_base(MixedQuiz(b)) = b
    /\ resp.ready

\* C13 (as stated): for every base, the video manifest
\* '{timestamp}_{base}.{ext}.video.json' and the quiz manifest '{base}.quiz.json'
\* decode to the base, and with exactly those two stored status reports ready.
C13_MixedFormsReady ==
    \A b \in PollBases :
        (Fresh /\ resp.doc = b /\ MixedOnly(b)) => MixedDecodeAndReady(b)

\* C13 (amended): the same for every base that contains no '.' and has no
\* timestamp prefix of its own, when the status call obtains its listings.
C13_MixedFormsReadyPlain ==
    \A b \in PollBases :
        ( /\ ~HasDot(b)
          /\ ~HasTimestampPrefix(b)
          /\ Fresh /\ resp.doc = b /\ MixedOnly(b)
          /\ seen.failed = {} ) => MixedDecodeAndReady(b)

C13_Witness ==
    /\ Fresh
    /\ resp.doc = "Project Alpha"
    /\ MixedOnly("Project Alpha")
    /\ seen.failed = {}
    /\ resp.artifacts.video = "20250101120000_Project Alpha.txt.video.json"
    /\ resp.artifacts.quiz = "Project Alpha.quiz.json"
    /\ resp.ready

\* a video manifest and a quiz manifest that decode to b are stored
ManifestsStored(b) ==
    /\ Matching("video", blobs[VIDEO_CONTAINER], b) # {}
    /\ Matching("quiz", blobs[QUIZ_CONTAINER], b) # {}

\* C14 (as stated): every status call reports ready exactly when both manifests
\* of the base are stored at the time of the call, so a call made after both
\* were written reports ready, whatever the calls before it reported.
C14_NeverCached ==
    Fresh => (resp.ready <=> ManifestsStored(resp.doc))

\* C14 (amended): the same for the status calls that obtain the listings of
\* generated-videos and quiz-data.
C14_NeverCachedListed ==
    (Fresh /\ seen.failed = {}) => (resp.ready <=> ManifestsStored(resp.doc))

\* ready is reported for a document for which the call before reported not ready
C14_Witness ==
    /\ Fresh
    /\ seen.failed = {}
    /\ resp.ready
    /\ seen.last.op = "status"
    /\ seen.last.status = 200
    /\ seen.last.doc = resp.doc
    /\ seen.lastfailed = {}
    /\ ~seen.last.ready

----------------------------------------------------------------------------
(* Upload: shared_blob.py _sanitize_filename, save_uploaded_text;          *)
(* upload/function_logic.py handle                                         *)

MAX_SIZE == 400000

Whitespace == {" ", "\t", "\n", "\r"}

MinOf(S) == CHOOSE x \in S : \A y \in S : x <= y
MaxOf(S) == CHOOSE x \in S : \A y \in S : x >= y

IsWs(s, i) == Char(s, i) \in Whitespace

lstrip(s) ==
    IF \A i \in 1..Len(s) : IsWs(s, i) THEN ""
    ELSE SubSeq(s, CHOOSE i \in 1..Len(s) : ~IsWs(s, i) /\ \A j \in 1..(i - 1) : IsWs(s, j),
                Len(s))

rstrip(s) ==
    IF \A i \in 1..Len(s) : IsWs(s, i) THEN ""
    ELSE SubSeq(s, 1,
                CHOOSE i \in 1..Len(s) : ~IsWs(s, i) /\ \A j \in (i + 1)..Len(s) : IsWs(s, j))

\* str.strip
strip(s) == rstrip(lstrip(s))

\* str.replace: the occurrences of old, left to right, without overlap
RECURSIVE replace(_, _, _)
replace(s, old, new) ==
    IF Len(s) < Len(old) THEN s
    ELSE IF SubSeq(s, 1, Len(old)) = old
         THEN new \o replace(SubSeq(s, Len(old) + 1, Len(s)), old, new)
         ELSE Head(s) \o replace(Tail(s), old, new)

sanitize_filename(name) ==
    LET n == replace(replace(replace(strip(name), "..", "_"), "/", "_"), "\\", "_")
    IN  IF n = "" THEN "unnamed" ELSE n

\* A JSON value that is not a string (a number); truthy, without str methods.
NonStr == "<7>"

\* datetime.utcnow().strftime("%Y%m%d%H%M%S") at the clock's k-th second
Timestamp(k) == "2025010112000" \o Char("0123456789", k)

\* How the storage write of one save_uploaded_text call goes: the blob is
\* written, there is no client, or _ensure_container / upload_blob raises.
WriteModes == {"ok", "no_client", "error"}

\* save_uploaded_text: the blob name it returns and where the content went
\* ("blob": uploaded-docs, "memory": _IN_MEMORY_STORE), or the exception.
save_uploaded_text(original_name, content, mode, now) ==
    IF original_name = NonStr
    THEN [raised |-> TRUE]
    ELSE LET safe == sanitize_filename(original_name)
             blob_name == Timestamp(now) \o "_" \o safe
         IN  [raised |-> FALSE, blob_name |-> blob_name,
              target |-> IF mode = "ok" THEN "blob" ELSE "memory"]

\* The content the handler derives: a text with its length, or None.
NoContent == [text |-> None, len |-> 0]
IsNoneContent(content) == content.text = None
Falsy(content) == IsNoneContent(content) \/ content.len = 0

BinaryPlaceholder == [text |-> "[BINARY FILE PLACEHOLDER]", len |-> 120]

\* upload/function_logic.py handle: the response and the save it performed.
\* req: method, qname (the name query or route parameter, None when absent),
\* body: kind "empty" | "text" | "binary" | "json" | "jsonlist", the raw length,
\* the text, and for JSON the name and content fields (None when absent).
upload_handle(req, mode, now) ==
    LET nosave == [raised |-> FALSE, target |-> "none"]
        body == req.body
        qmissing == req.qname = None \/ req.qname = ""
        isdict == body.kind = "json"
        name == IF ~qmissing THEN req.qname
                ELSE IF isdict THEN body.jname ELSE req.qname
        jcontent == IF qmissing /\ isdict THEN body.jcontent ELSE NoContent
        raw == IF body.kind = "empty" THEN NoContent
               ELSE IF body.kind = "binary" THEN BinaryPlaceholder
               ELSE [text |-> body.text, len |-> body.len]
        content == IF IsNoneContent(jcontent) THEN raw ELSE jcontent
        noname == name = None \/ name = ""
    IN  IF req.method = "OPTIONS"
        THEN [resp |-> [op |-> "upload", status |-> 200, body |-> ""], save |-> nosave]
        ELSE IF req.method # "POST"
        THEN [resp |-> [op |-> "upload", status |-> 405, error |-> "Only POST supported"],
              save |-> nosave]
        ELSE IF noname
        THEN [resp |-> [op |-> "upload", status |-> 400,
                        error |-> "Missing 'name' query or JSON field"], save |-> nosave]
        ELSE IF Falsy(content)
        THEN [resp |-> [op |-> "upload", status |-> 400,
                        error |-> "Missing document content in body"], save |-> nosave]
        ELSE IF content.len > MAX_SIZE
        THEN [resp |-> [op |-> "upload", status |-> 400,
                        error |-> "Content too large for stub endpoint (400KB limit)"],
              save |-> nosave]
        ELSE LET saved == save_uploaded_text(name, content, mode, now)
             IN  IF saved.raised
                 THEN [resp |-> [op |-> "upload", status |-> 500,
                                 error |-> "Storage operation failed"], save |-> nosave]
                 ELSE [resp |-> [op |-> "upload", status |-> 200,
                                 savedAs |-> saved.blob_name, bytes |-> content.len,
                                 fileName |-> saved.blob_name, uploadedBytes |-> content.len,
                                 docName |-> IF HasDot(name) THEN rsplit_dot(name) ELSE name],
                       save |-> [raised |-> FALSE, target |-> saved.target, name |-> name,
                                 blob_name |-> saved.blob_name, content |-> content]]

\* testupload/logic.py handle: the response and the save it performed; req as
\* for upload_handle, qname being the name query parameter.
testupload_handle(req, mode, now) ==
    LET nosave == [raised |-> FALSE, target |-> "none"]
        body == req.body
        qmissing == req.qname = None \/ req.qname = ""
        isdict == body.kind = "json"
        name == IF qmissing /\ isdict THEN body.jname ELSE req.qname
        jcontent == IF qmissing /\ isdict THEN body.jcontent ELSE NoContent
        raw == IF body.kind = "empty" THEN NoContent ELSE [text |-> body.text, len |-> body.len]
        content == IF IsNoneContent(jcontent) THEN raw ELSE jcontent
        noname == name = None \/ name = ""
    IN  IF req.method = "OPTIONS"
        THEN [resp |-> [op |-> "testupload", status |-> 200, body |-> ""], save |-> nosave]
        ELSE IF req.method # "POST"
        THEN [resp |-> [op |-> "testupload", status |-> 405, error |-> "POST only"],
              save |-> nosave]
        ELSE IF IsNoneContent(jcontent) /\ body.kind = "binary"
        THEN [resp |-> [op |-> "testupload", status |-> 400, error |-> "UTF-8 body required"],
              save |-> nosave]
        ELSE IF noname \/ Falsy(content)
        THEN [resp |-> [op |-> "testupload", status |-> 400,
                        error |-> "Missing name or content"], save |-> nosave]
        ELSE LET saved == save_uploaded_text(name, content, mode, now)
             IN  IF saved.raised
                 THEN [resp |-> [op |-> "testupload", status |-> 500,
                                 error |-> "Storage failure"], save |-> nosave]
                 ELSE [resp |-> [op |-> "testupload", status |-> 200,
                                 savedAs |-> saved.blob_name, bytes |-> content.len,
                                 route |-> "testupload"],
                       save |-> [raised |-> FALSE, target |-> saved.target, name |-> name,
                                 blob_name |-> saved.blob_name, content |-> content]]

----------------------------------------------------------------------------
(* Specification SpecUpload: upload requests are served while time passes  *)

MaxUploads == 2     \* documents saved in one behaviour
MaxClock == 2       \* distinct seconds the clock shows in one behaviour

UploadMethods == {"POST", "OPTIONS", "GET"}
UploadNames == {None, "a.txt", " b/..c "}

JsonBody(jname, jcontent) ==
    [kind |-> "json", text |-> "{json}", len |-> 40, jname |-> jname, jcontent |-> jcontent]
PlainBody(kind, text, len) ==
    [kind |-> kind, text |-> text, len |-> len, jname |-> None, jcontent |-> NoContent]

UploadBodies ==
    { PlainBody("empty", "", 0),
      PlainBody("text", "hello", 5),
      PlainBody("text", "hello...", MAX_SIZE + 1),
      PlainBody("binary", None, 9),
      PlainBody("jsonlist", "[1]", 3),
      JsonBody("a.txt", [text |-> "hi", len |-> 2]),
      JsonBody(None, [text |-> "hi", len |-> 2]),
      JsonBody("a.txt", NoContent),
      JsonBody("a.txt", [text |-> "", len |-> 0]),
      JsonBody(NonStr, [text |-> "hi", len |-> 2]) }

UploadRequests ==
    { [method |-> m, qname |-> n, body |-> b] :
        m \in UploadMethods, n \in UploadNames, b \in UploadBodies }

NoWrite == [write |-> "none"]

InitUpload ==
    /\ blobs = EmptyStore
    /\ data = NoData
    /\ mem = NoData
    /\ clock = 1
    /\ seen = NoWrite
    /\ resp = NoResp
    /\ codec = CodecIdle
    /\ asm = AsmIdle
    /\ log = {}

\* POST /upload; the storage write of save_uploaded_text goes as mode says.
Upload(req, mode) ==
    \E r \in {upload_handle(req, mode, clock)} :
    LET save == r.save
    IN  /\ Len(blobs[UPLOAD_CONTAINER]) + Cardinality(DOMAIN mem) < MaxUploads
        /\ resp' = r.resp
        /\ seen' = [write |-> IF save.target = "none" THEN "none" ELSE mode, req |-> req]
        /\ blobs' = IF save.target = "blob" /\ save.blob_name \notin Range(blobs[UPLOAD_CONTAINER])
                    THEN [blobs EXCEPT ![UPLOAD_CONTAINER] = Append(@, save.blob_name)]
                    ELSE blobs
        /\ data' = IF save.target = "blob"
                   THEN (<<UPLOAD_CONTAINER, save.blob_name>> :> save.content) @@ data
                   ELSE data
        /\ mem' = IF save.target = "memory"
                  THEN (save.blob_name :> save.content) @@ mem
                  ELSE mem
        /\ log' = IF save.target = "none" THEN log
                  ELSE log \cup {[name |-> save.name, stored |-> save.target = "blob",
                                  saved |-> save.blob_name, doc |-> r.resp.docName]}
        /\ UNCHANGED <<clock, codec, asm>>

\* POST /testupload; the storage write of save_uploaded_text goes as mode says.
TestUpload(req, mode) ==
    \E r \in {testupload_handle(req, mode, clock)} :
    LET save == r.save
    IN  /\ Len(blobs[UPLOAD_CONTAINER]) + Cardinality(DOMAIN mem) < MaxUploads
        /\ resp' = r.resp
        /\ seen' = [write |-> IF save.target = "none" THEN "none" ELSE mode, req |-> req]
        /\ blobs' = IF save.target = "blob" /\ save.blob_name \notin Range(blobs[UPLOAD_CONTAINER])
                    THEN [blobs EXCEPT ![UPLOAD_CONTAINER] = Append(@, save.blob_name)]
                    ELSE blobs
        /\ data' = IF save.target = "blob"
                   THEN (<<UPLOAD_CONTAINER, save.blob_name>> :> save.content) @@ data
                   ELSE data
        /\ mem' = IF save.target = "memory"
                  THEN (save.blob_name :> save.content) @@ mem
                  ELSE mem
        /\ log' = IF save.target = "none" THEN log
                  ELSE log \cup {[name |-> save.name, stored |-> save.target = "blob",
                                  saved |-> save.blob_name, doc |-> None]}
        /\ UNCHANGED <<clock, codec, asm>>

\* A second passes.
Tick ==
    /\ clock < MaxClock
    /\ clock' = clock + 1
    /\ UNCHANGED <<blobs, data, mem, seen, resp, codec, asm, log>>

NextUpload ==
    \/ \E req \in UploadRequests : \E mode \in WriteModes : Upload(req, mode)
    \/ Tick

SpecUpload == InitUpload /\ [][NextUpload]_vars

\* C6: an upload whose storage write fails (no client, container or put error)
\* is answered with 500, and success is reported only for a document that is in
\* the uploaded-docs container.
C6_WriteFailureSurfaced ==
    resp.op = "upload" =>
        /\ seen.write \in {"no_client", "error"} => resp.status = 500
        /\ (resp.status = 200 /\ "savedAs" \in DOMAIN resp)
              => resp.savedAs \in Range(blobs[UPLOAD_CONTAINER])

----------------------------------------------------------------------------
(* Specification SpecValidate: upload requests are served by the two       *)
(* upload handlers, one request at a time                                  *)

ValidateUpload(req, mode) == resp = NoResp /\ Upload(req, mode)
ValidateTestUpload(req, mode) == resp = NoResp /\ TestUpload(req, mode)
ValidateTick == resp = NoResp /\ Tick

\* The response is delivered.
ValidateRespond ==
    /\ resp # NoResp
    /\ resp' = NoResp
    /\ seen' = NoWrite
    /\ UNCHANGED <<blobs, data, mem, clock, codec, asm, log>>

NextValidate ==
    \/ \E req \in UploadRequests : \E mode \in WriteModes : ValidateUpload(req, mode)
    \/ \E req \in UploadRequests : \E mode \in WriteModes : ValidateTestUpload(req, mode)
    \/ ValidateTick
    \/ ValidateRespond

SpecValidate == InitUpload /\ [][NextValidate]_vars

\* the document name of an upload request: the query parameter, else the name
\* field of a JSON object body
RequestName(req) ==
    IF req.qname \notin {None, ""} THEN req.qname
    ELSE IF req.body.kind = "json" THEN req.body.jname ELSE None

\* the payload of an upload request: the content field of a JSON object body
\* sent without a name parameter, else the raw body
RequestPayload(req) ==
    IF req.qname \in {None, ""} /\ req.body.kind = "json" /\ ~IsNoneContent(req.body.jcontent)
    THEN req.body.jcontent
    ELSE [text |-> req.body.text, len |-> req.body.len]

\* malformed input: no document name, an empty body, a payload over the size
\* limit, or a body that is not UTF-8
Malformed(req) ==
    \/ RequestName(req) \in {None, ""}
    \/ req.body.kind = "empty"
    \/ RequestPayload(req).len > MAX_SIZE
    \/ req.body.kind = "binary"

\* C24: a step that serves a POST upload request with malformed input answers
\* 400 and leaves the uploaded-docs container, the stored contents and the
\* in-memory store as they were.
C24_RejectedBeforeSideEffect ==
    [][ ( /\ resp'.op \in {"upload", "testupload"}
          /\ seen'.req.method = "POST"
          /\ Malformed(seen'.req) )
        => ( /\ resp'.status = 400
             /\ blobs' = blobs
             /\ data' = data
             /\ mem' = mem ) ]_vars

----------------------------------------------------------------------------
(* Known documents: shared_blob.py list_uploaded_docs,                     *)
(* list_known_doc_bases; listdocs/__init__.py main                         *)

\* The characters of the names, in the order of their code points; "^" and "~"
\* stand for U+00B2 and U+2026 and come last.
CodePoints ==
    " !#$%&()*+,-./0123456789:;<=>?@ABCDEFGHIJKLMNOPQRSTUVWXYZ[]_abcdefghijklmnopqrstuvwxyz{|}^~"

Ord(c) == CHOOSE i \in 1..Len(CodePoints) : Char(CodePoints, i) = c

\* a < b for Python strings
StrLess(a, b) ==
    LET n == IF Len(a) < Len(b) THEN Len(a) ELSE Len(b)
        diff == { i \in 1..n : Char(a, i) # Char(b, i) }
    IN  IF diff = {} THEN Len(a) < Len(b)
        ELSE Ord(Char(a, MinOf(diff))) < Ord(Char(b, MinOf(diff)))

\* sorted(S) for a set of strings
sorted(S) ==
    [k \in 1..Cardinality(S) |->
        CHOOSE x \in S : Cardinality({ y \in S : StrLess(y, x) }) = k - 1]

\* list_uploaded_docs: the names it returns, as a set (its one caller iterates
\* over them to fill a set): the listing of uploaded-docs, empty when there is
\* no client, no container or an exception, and the keys of _IN_MEMORY_STORE
list_uploaded_docs(store, memory, mode) ==
    (IF mode = "ok" THEN Range(store[UPLOAD_CONTAINER]) ELSE {}) \cup DOMAIN memory

\* list_known_doc_bases: the base of one uploaded name
uploaded_base(uploaded) ==
    LET name == IF Len(uploaded) > 15 /\ isdigit(SubSeq(uploaded, 1, 14))
                   /\ Char(uploaded, 15) = "_"
                THEN SubSeq(uploaded, 16, Len(uploaded))
                ELSE uploaded
    IN  IF HasDot(name) THEN rsplit_dot(name) ELSE name

\* (mutant) only the processed artifacts are looked at, not the uploads
list_known_doc_bases_artifacts_only(store, memory, modes) ==
    LET listed == listings_of(store, modes)
        videos == Range(listed[VIDEO_CONTAINER].names)
        files == Range(listed[VIDEO_FILE_CONTAINER].names)
        quizzes == Range(listed[QUIZ_CONTAINER].names)
    IN  sorted({ extract_doc_base(blob) : blob \in { b \in videos : endswith(b, ".video.json") } }
               \cup { extract_doc_base(blob) : blob \in files }
               \cup { extract_doc_base(blob) : blob \in { b \in quizzes : endswith(b, ".quiz.json") } })

\* (mutant) the bases are deduplicated without regard to letter case
list_known_doc_bases_caseless(store, memory, modes) ==
    LET listed == listings_of(store, modes)
        videos == Range(listed[VIDEO_CONTAINER].names)
        files == Range(listed[VIDEO_FILE_CONTAINER].names)
        quizzes == Range(listed[QUIZ_CONTAINER].names)
    IN  sorted({ lower(uploaded_base(uploaded)) :
                   uploaded \in list_uploaded_docs(store, memory, modes[UPLOAD_CONTAINER]) }
               \cup { lower(extract_doc_base(blob)) : blob \in { b \in videos : endswith(b, ".video.json") } }
               \cup { lower(extract_doc_base(blob)) : blob \in files }
               \cup { lower(extract_doc_base(blob)) : blob \in { b \in quizzes : endswith(b, ".quiz.json") } })

\* list_known_doc_bases; modes: how the listing of each of the four containers goes
list_known_doc_bases(store, memory, modes) ==
    LET listed == listings_of(store, modes)
        videos == Range(listed[VIDEO_CONTAINER].names)
        files == Range(listed[VIDEO_FILE_CONTAINER].names)
        quizzes == Range(listed[QUIZ_CONTAINER].names)
    IN  sorted({ uploaded_base(uploaded) :
                   uploaded \in list_uploaded_docs(store, memory, modes[UPLOAD_CONTAINER]) }
               \cup { extract_doc_base(blob) : blob \in { b \in videos : endswith(b, ".video.json") } }
               \cup { extract_doc_base(blob) : blob \in files }
               \cup { extract_doc_base(blob) : blob \in { b \in quizzes : endswith(b, ".quiz.json") } })

\* listdocs/__init__.py main
listdocs_main(store, memory, modes) ==
    [op |-> "documents", status |-> 200, documents |-> list_known_doc_bases(store, memory, modes)]

----------------------------------------------------------------------------
(* Specification SpecDocs: uploads, artifacts written by the processing    *)
(* pipeline, and listings of the known documents                           *)

DocNames == { "a.txt", " b/..c ", "Doc.txt" }

DocsRequests ==
    { [method |-> "POST", qname |-> n, body |-> PlainBody("text", "hello", 5)] : n \in DocNames }

\* What the processing pipeline writes
DocsWrites ==
    { <<VIDEO_CONTAINER, "20250101120000_Doc.txt.video.json">>,
      <<VIDEO_CONTAINER, "doc.quiz.json">>,
      <<VIDEO_FILE_CONTAINER, "doc.mp4">>,
      <<QUIZ_CONTAINER, "a.quiz.json">> }

\* The listings that fail in one request: none, those of one container, or all
DocsFailures == { {} } \cup { {c} : c \in Containers } \cup { Containers }

\* GET /list/docs; the listings of the containers in failed fail (why).
ListDocs(failed, why) ==
    LET modes == [c \in Containers |-> IF c \in failed THEN why ELSE "ok"]
    IN  /\ resp = NoResp
        /\ \A c \in failed : why = "absent" => blobs[c] = <<>>
        /\ seen' = [failed |-> failed]
        /\ resp' = listdocs_main(blobs, mem, modes)
        /\ UNCHANGED <<blobs, data, mem, clock, codec, asm, log>>

\* The response is delivered.
DocsRespond ==
    /\ resp # NoResp
    /\ resp' = NoResp
    /\ seen' = NoWrite
    /\ UNCHANGED <<blobs, data, mem, clock, codec, asm, log>>

\* One request at a time: the next operation starts when the response of the
\* last one is delivered.
DocsUpload(req, mode) == resp = NoResp /\ Upload(req, mode)
DocsExternalWrite(c, name) == resp = NoResp /\ ExternalWrite(c, name, "{}")
DocsTick == resp = NoResp /\ Tick

NextDocs ==
    \/ \E req \in DocsRequests : \E mode \in WriteModes : DocsUpload(req, mode)
    \/ \E w \in DocsWrites : DocsExternalWrite(w[1], w[2])
    \/ \E failed \in DocsFailures : \E why \in FailureModes(failed) : ListDocs(failed, why)
    \/ DocsTick
    \/ DocsRespond

SpecDocs == InitUpload /\ [][NextDocs]_vars

\* the name an upload request carries (a query parameter here)
UploadName(req) == req.qname

\* the base list_known_doc_bases derives from the stored name of a document
\* uploaded as n
StoredBase(n) ==
    IF HasDot(sanitize_filename(n)) THEN rsplit_dot(sanitize_filename(n))
    ELSE sanitize_filename(n)

\* n without its final extension
WithoutExtension(n) == IF HasDot(n) THEN rsplit_dot(n) ELSE n

UploadSucceeded(n) ==
    resp.op = "upload" /\ resp.status = 200 /\ UploadName(seen.req) = n

Listed == resp.op = "documents"

Ascending(docs) == \A i, j \in 1..Len(docs) : i < j => StrLess(docs[i], docs[j])

\* C16 (as stated): the documents listing is the decoded bases of the objects in
\* the upload container and the three artifact containers, sorted ascending,
\* without duplicates, bases that differ in letter case kept apart.
C16_SortedDecodedBases ==
    Listed =>
        /\ Ascending(resp.documents)
        /\ Range(resp.documents)
              = { extract_doc_base(o) : o \in UNION { Range(blobs[c]) : c \in Containers } }

\* C16 (amended): the documents listing is sorted ascending without duplicates,
\* case kept, and consists of the bases of the uploaded documents (those the
\* listing of uploaded-docs shows and those held in memory), of the video
\* manifests in generated-videos, of all objects in generated-video-files and
\* of the quiz manifests in quiz-data, a container whose listing fails counting
\* as empty.
C16_SortedListedBases ==
    Listed =>
        LET shown(c) == IF c \in seen.failed THEN {} ELSE Range(blobs[c])
            bases == { uploaded_base(o) : o \in shown(UPLOAD_CONTAINER) \cup DOMAIN mem }
                       \cup { extract_doc_base(o) :
                                o \in { x \in shown(VIDEO_CONTAINER) : IsOfKind("video", x) } }
                       \cup { extract_doc_base(o) : o \in shown(VIDEO_FILE_CONTAINER) }
                       \cup { extract_doc_base(o) :
                                o \in { x \in shown(QUIZ_CONTAINER) : IsOfKind("quiz", x) } }
        IN  /\ Ascending(resp.documents)
            /\ Range(resp.documents) = bases
            /\ \A x, y \in bases : (x # y /\ lower(x) = lower(y))
                    => \E i, j \in 1..Len(resp.documents) :
                          i # j /\ resp.documents[i] = x /\ resp.documents[j] = y

\* 'Doc' (uploaded) and 'doc' (a rendered video) are both listed, upper case first
C16_Witness ==
    /\ Listed
    /\ seen.failed = {}
    /\ mem = NoData
    /\ resp.documents = <<"Doc", "a", "doc">>

\* C27: whenever the known documents are listed, the listing of uploaded-docs
\* not failing, the docName returned by every successful upload so far is one
\* of the bases listed.
C27_DocNameListed ==
    (Listed /\ UPLOAD_CONTAINER \notin seen.failed) =>
        \A u \in log : u.doc \in Range(resp.documents)

----------------------------------------------------------------------------
(* Context assembler: chatbot/__init__.py _build_context_text (with        *)
(* textwrap.shorten) and chatbot/chat_logic.py _build_context.             *)
(* A string field that is absent or null is None; a list field that is    *)
(* absent or null is the empty list, which no code path tells apart.       *)

MAX_CONTEXT_CHARACTERS == 6000
MAX_SCENES == 8

\* The placeholder "\n..." of shorten: "~" stands for the one character U+2026.
Ellipsis == "~"
Placeholder == "\n" \o Ellipsis

Truthy(x) == x # None /\ x # ""

\* a or b or c on values that are strings or None
Or2(a, b) == IF Truthy(a) THEN a ELSE b
Or3(a, b, c) == Or2(a, Or2(b, c))

\* Below, CHOOSE r \in { F(v) : v \in {x} } : TRUE is F at the value of x: a
\* local variable of the code, evaluated once however often it is read.

\* sep.join(items) (computed by halves)
RECURSIVE join(_, _)
join(sep, items) ==
    IF Len(items) = 0 THEN ""
    ELSE IF Len(items) = 1 THEN items[1]
    ELSE join(sep, SubSeq(items, 1, Len(items) \div 2)) \o sep
            \o join(sep, SubSeq(items, Len(items) \div 2 + 1, Len(items)))

\* seq[:n]
Take(seq, n) == SubSeq(seq, 1, IF Len(seq) < n THEN Len(seq) ELSE n)

\* str.split(): the maximal runs of non-whitespace characters (computed by
\* halves: s is cut at the whitespace nearest after its middle, or else before)
RECURSIVE split(_)
split(s) ==
    LET n == Len(s)
        mid == (n + 1) \div 2
        after == \E i \in mid..n : IsWs(s, i)
        before == \E i \in 1..(mid - 1) : IsWs(s, i)
        p == IF after
             THEN CHOOSE i \in mid..n : IsWs(s, i) /\ \A j \in mid..(i - 1) : ~IsWs(s, j)
             ELSE CHOOSE i \in 1..(mid - 1) : IsWs(s, i) /\ \A j \in (i + 1)..(mid - 1) : ~IsWs(s, j)
    IN  IF n = 0 THEN <<>>
        ELSE IF ~after /\ ~before THEN <<s>>
        ELSE split(SubSeq(s, 1, p - 1)) \o split(SubSeq(s, p + 1, n))

\* TextWrapper._split on whitespace-normalised text without hyphens: the words
\* with the single spaces between them
wrap_chunks(words) ==
    IF Len(words) = 0 THEN <<>>
    ELSE [i \in 1..(2 * Len(words) - 1) |-> IF i % 2 = 1 THEN words[(i + 1) \div 2] ELSE " "]

\* sum(map(len, chunks)) (computed by halves)
RECURSIVE sum_len(_)
sum_len(chunks) ==
    IF Len(chunks) = 0 THEN 0
    ELSE IF Len(chunks) = 1 THEN Len(chunks[1])
    ELSE sum_len(SubSeq(chunks, 1, Len(chunks) \div 2))
            + sum_len(SubSeq(chunks, Len(chunks) \div 2 + 1, Len(chunks)))

\* while chunks: if cur_len + l <= width: take the chunk, else break
\* -- the number of chunks taken
greedy_count(chunks, width) ==
    IF sum_len(chunks) <= width THEN Len(chunks)
    ELSE CHOOSE j \in 0..(Len(chunks) - 1) :
            /\ sum_len(SubSeq(chunks, 1, j)) <= width
            /\ sum_len(SubSeq(chunks, 1, j + 1)) > width

\* the max_lines branch of TextWrapper._wrap_chunks: drop chunks from the end of
\* the line until the placeholder fits after a non-blank chunk
with_placeholder(cur_line, width, placeholder) ==
    LET ok == { j \in 1..Len(cur_line) :
                  /\ strip(cur_line[j]) # ""
                  /\ sum_len(SubSeq(cur_line, 1, j)) + Len(placeholder) <= width }
    IN  IF ok = {} THEN lstrip(placeholder)
        ELSE join("", SubSeq(cur_line, 1, MaxOf(ok))) \o placeholder

\* TextWrapper._wrap_chunks with max_lines = 1, joined: the one line kept
wrap_line(chunks, width, placeholder) ==
    LET n == Len(chunks)
        k == greedy_count(chunks, width)
        taken == SubSeq(chunks, 1, k)
        long == k < n /\ Len(chunks[k + 1]) > width
        cur0 == IF long
                THEN Append(taken, SubSeq(chunks[k + 1], 1, width - sum_len(taken)))
                ELSE taken
        cur_line == IF cur0 # <<>> /\ strip(cur0[Len(cur0)]) = ""
                    THEN SubSeq(cur0, 1, Len(cur0) - 1)
                    ELSE cur0
        left == n - k
        fits == left = 0 \/ (left = 1 /\ ~long /\ strip(chunks[n]) = "")
    IN  IF n = 0 THEN ""
        ELSE IF cur_line # <<>> /\ fits THEN join("", cur_line)
        ELSE with_placeholder(cur_line, width, placeholder)

\* textwrap.shorten(text, width, placeholder=placeholder), for width >= 1
shorten(text, width, placeholder) ==
    CHOOSE r \in { wrap_line(chunks, width, placeholder) :
                     chunks \in {wrap_chunks(split(text))} } : TRUE

\* A manifest that was not loaded (Python None)
NoManifest == [absent |-> TRUE, summary |-> None, scenes |-> <<>>, questions |-> <<>>]
IsAbsent(m) == "absent" \in DOMAIN m

\* correctIndex of a quiz question: [kind |-> "int", val |-> i], or kind
\* "missing" (no such key), "null", "str" (a JSON string).

\* _build_context_text: one question's entry, or the TypeError of 0 <= answer_idx
context_text_question(question) ==
    LET q_text == Or2(question.text, question.question)
        options == question.options
        ci == question.correctIndex
        answer_idx == IF ci.kind = "missing" THEN 0 ELSE IF ci.kind = "int" THEN ci.val ELSE 0
        answer == IF 0 <= answer_idx /\ answer_idx < Len(options)
                  THEN options[answer_idx + 1] ELSE None
    IN  IF ci.kind \in {"null", "str"}
        THEN [raised |-> TRUE]
        ELSE [raised |-> FALSE,
              text |-> "Q: " \o (IF Truthy(q_text) THEN q_text ELSE "")
                         \o (IF Truthy(answer) THEN "\nA: " \o answer ELSE "")]

context_text_scene(scene) ==
    LET title == Or3(scene.title, scene.heading, "Scene")
        text == Or3(scene.text, scene.narration, "")
    IN  "- " \o title \o ": " \o text

\* (mutant) the context is returned as joined, without shorten
build_context_text_untruncated(video, quiz, max_chars) ==
    LET summary_part == IF Truthy(video.summary) THEN <<"Summary: " \o video.summary>> ELSE <<>>
        scenes == Take(video.scenes, 6)
        formatted_scenes == [i \in 1..Len(scenes) |-> context_text_scene(scenes[i])]
        scenes_part == IF formatted_scenes # <<>>
                       THEN <<"Scenes:\n" \o join("\n", formatted_scenes)>> ELSE <<>>
        questions == Take(quiz.questions, 5)
        entries == [i \in 1..Len(questions) |-> context_text_question(questions[i])]
        quiz_part == IF entries # <<>>
                     THEN <<"Quiz insights:\n"
                              \o join("\n", [i \in 1..Len(entries) |-> entries[i].text])>>
                     ELSE <<>>
        parts == summary_part \o scenes_part \o quiz_part
        context == IF parts # <<>> THEN join("\n\n", parts) ELSE "No context available."
    IN  IF IsAbsent(video) \/ IsAbsent(quiz) \/ \E i \in 1..Len(entries) : entries[i].raised
        THEN [raised |-> TRUE]
        ELSE [raised |-> FALSE, text |-> context]

\* chatbot/__init__.py _build_context_text(video, quiz, max_chars); a manifest
\* that is None has no get
build_context_text(video, quiz, max_chars) ==
    LET summary_part == IF Truthy(video.summary) THEN <<"Summary: " \o video.summary>> ELSE <<>>
        scenes == Take(video.scenes, 6)
        formatted_scenes == [i \in 1..Len(scenes) |-> context_text_scene(scenes[i])]
        scenes_part == IF formatted_scenes # <<>>
                       THEN <<"Scenes:\n" \o join("\n", formatted_scenes)>> ELSE <<>>
        questions == Take(quiz.questions, 5)
        entries == [i \in 1..Len(questions) |-> context_text_question(questions[i])]
        quiz_part == IF entries # <<>>
                     THEN <<"Quiz insights:\n"
                              \o join("\n", [i \in 1..Len(entries) |-> entries[i].text])>>
                     ELSE <<>>
        parts == summary_part \o scenes_part \o quiz_part
        context == IF parts # <<>> THEN join("\n\n", parts) ELSE "No context available."
    IN  IF IsAbsent(video) \/ IsAbsent(quiz) \/ \E i \in 1..Len(entries) : entries[i].raised
        THEN [raised |-> TRUE]
        ELSE [raised |-> FALSE,
              text |-> CHOOSE r \in { shorten(c, max_chars, Placeholder) : c \in {context} } :
                          TRUE]

\* chat_logic.py _build_context: the line of one scene, None when it is skipped
context_scene(scene) ==
    LET title == strip(Or3(scene.title, scene.badge, "Scene " \o scene.index))
        text == strip(Or3(scene.text, scene.narration, ""))
    IN  IF text = "" THEN None ELSE "- " \o title \o ": " \o text

\* chat_logic.py _build_context: the entry of one question, None when it has none
context_question(item) ==
    LET stem == Or2(item.text, item.question)
        options == item.options
        ci == item.correctIndex
    IN  IF Truthy(stem) /\ options # <<>> /\ ci.kind = "int"
           /\ 0 <= ci.val /\ ci.val < Len(options)
        THEN "Q: " \o stem \o "\nA: " \o options[ci.val + 1]
        ELSE None

\* the entries of a list that are not None, in order
RECURSIVE compact(_)
compact(items) ==
    IF items = <<>> THEN <<>>
    ELSE IF items[1] = None THEN compact(Tail(items))
    ELSE <<items[1]>> \o compact(Tail(items))

\* chat_logic.py _build_context(video_json, quiz_json), with the module's
\* MAX_CONTEXT_CHARACTERS as max_chars; quiz_json is None when no quiz was loaded
build_context(video_json, quiz_json, max_chars) ==
    LET summary == strip(IF Truthy(video_json.summary) THEN video_json.summary ELSE "")
        summary_lines == IF summary # "" THEN <<"Document Summary:\n" \o summary>> ELSE <<>>
        scenes == video_json.scenes
        scene_lines ==
            IF scenes # <<>>
            THEN <<"Key Scenes:">>
                   \o compact([i \in 1..Len(Take(scenes, MAX_SCENES)) |-> context_scene(scenes[i])])
            ELSE <<>>
        qa_lines ==
            IF ~IsAbsent(quiz_json)
            THEN compact([i \in 1..Len(Take(quiz_json.questions, 3)) |->
                            context_question(quiz_json.questions[i])])
            ELSE <<>>
        quiz_lines == IF qa_lines # <<>> THEN <<"Sample Quiz Knowledge:">> \o qa_lines ELSE <<>>
        lines == summary_lines \o scene_lines \o quiz_lines
        context == strip(join("\n\n", lines))
    IN  IF IsAbsent(video_json)
        THEN [raised |-> TRUE]
        ELSE [raised |-> FALSE, text |-> Take(context, max_chars)]

----------------------------------------------------------------------------
(* Specification SpecAssemble: the two context assemblers applied to       *)
(* manifests, again and again while time passes                            *)

MaxScenes == 9      \* scenes in a video manifest
MaxQuestions == 6   \* questions in a quiz manifest

Scene(title, heading, badge, index, text, narration) ==
    [title |-> title, heading |-> heading, badge |-> badge, index |-> index,
     text |-> text, narration |-> narration]

ScenePool ==
    << Scene("Intro", None, None, "", "Hello", None),
       Scene(None, "H", "B", "2", None, "so  it\ngoes"),
       Scene(None, None, None, "3", " ", None),
       Scene("Gap", None, None, "4", None, "") >>

Question(text, question, options, correctIndex) ==
    [text |-> text, question |-> question, options |-> options, correctIndex |-> correctIndex]

QuestionPool ==
    << Question("Q1?", None, <<"A", "B">>, [kind |-> "int", val |-> 1]),
       Question(None, "Q2?", <<"A", "B">>, [kind |-> "missing", val |-> 0]),
       Question("Q3?", None, <<"A">>, [kind |-> "int", val |-> 4]),
       Question("Q4?", None, <<"A", "B">>, [kind |-> "str", val |-> 0]) >>

\* n entries of pool, starting at its entry offset + 1 and going round
Cycle(pool, n, offset) == [i \in 1..n |-> pool[((i - 1 + offset) % Len(pool)) + 1]]

AsmSummaries == { None, "Overview", " two\nwords " }

AsmVideos ==
    { [summary |-> sm, scenes |-> Cycle(ScenePool, n, o)] :
        sm \in AsmSummaries, n \in 0..MaxScenes, o \in {0} } \cup {NoManifest}

AsmQuizzes ==
    { [questions |-> Cycle(QuestionPool, n, o)] : n \in 0..MaxQuestions, o \in {0} }
        \cup {NoManifest}

\* max_chars: small limits, which make the cut happen, and the code's 6000
AsmLimits == { 1, 4, 12, 30, 70, MAX_CONTEXT_CHARACTERS }

NoOutput == [raised |-> FALSE, text |-> None]

InitAssemble ==
    /\ asm \in { [step |-> "input", variant |-> "none", video |-> v, quiz |-> q, limit |-> l,
                  out |-> NoOutput, first |-> NoOutput] :
                 v \in AsmVideos, q \in AsmQuizzes, l \in AsmLimits }
    /\ log = {}
    /\ blobs = EmptyStore
    /\ data = NoData
    /\ mem = NoData
    /\ clock = 1
    /\ seen = NoWrite
    /\ resp = NoResp
    /\ codec = CodecIdle

\* _build_context_text(video, quiz, max_chars) is called (chatbot/__init__.py).
BuildContextText ==
    /\ asm.variant \in {"none", "text"}
    /\ LET out == build_context_text(asm.video, asm.quiz, asm.limit)
       IN  asm' = [asm EXCEPT !.step = "done", !.variant = "text", !.out = out,
                              !.first = IF asm.step = "input" THEN out ELSE @]
    /\ UNCHANGED <<blobs, data, mem, clock, seen, resp, codec, log>>

\* _build_context(video_json, quiz_json) is called (chat_logic.py).
BuildContext ==
    /\ asm.variant \in {"none", "logic"}
    /\ LET out == build_context(asm.video, asm.quiz, asm.limit)
       IN  asm' = [asm EXCEPT !.step = "done", !.variant = "logic", !.out = out,
                              !.first = IF asm.step = "input" THEN out ELSE @]
    /\ UNCHANGED <<blobs, data, mem, clock, seen, resp, codec, log>>

NextAssemble == BuildContextText \/ BuildContext \/ Tick

SpecAssemble == InitAssemble /\ [][NextAssemble]_vars

\* the first position at which sub occurs in s from position from on, 0 if none
IndexFrom(s, sub, from) ==
    LET hits == { i \in from..(Len(s) - Len(sub) + 1) : SubSeq(s, i, i + Len(sub) - 1) = sub }
    IN  IF hits = {} THEN 0 ELSE MinOf(hits)

AsmReturned == asm.step = "done" /\ ~asm.out.raised

\* C9: the string assemble returns is at most limit plus the length of the
\* ellipsis marker long, whatever the size of the manifests, and a repeated call
\* on the same manifests returns the same string.
C9_LengthBound ==
    AsmReturned =>
        /\ Len(asm.out.text) <= asm.limit + Len(Ellipsis)
        /\ asm.out = asm.first

C9_Witness ==
    /\ AsmReturned
    /\ asm.variant = "text"
    /\ asm.limit = 30
    /\ Len(asm.video.scenes) = MaxScenes
    /\ asm.out.text = "Summary: Overview Scenes: -" \o Placeholder
    /\ clock = 2

\* C10: for summary 'Overview', one scene (Intro, Hello) and one question
\* (Q1?, [A, B], 1), within the limit, the output contains 'Summary: Overview',
\* then '- Intro: Hello', then 'Q: Q1?' newline 'A: B', the sections being
\* separated by blank lines.
C10_ScenarioSections ==
    ( /\ AsmReturned
      /\ asm.limit = MAX_CONTEXT_CHARACTERS
      /\ asm.video = [summary |-> "Overview", scenes |-> <<ScenePool[1]>>]
      /\ asm.quiz = [questions |-> <<QuestionPool[1]>>] )
    => LET t == asm.out.text
           a == IndexFrom(t, "Summary: Overview", 1)
           b == IndexFrom(t, "- Intro: Hello", a + 1)
           c == IndexFrom(t, "Q: Q1?\nA: B", b + 1)
       IN  /\ a > 0 /\ b > a /\ c > b
           /\ IndexFrom(t, "\n\n", a + 1) \in (a + 1)..(b - 1)
           /\ IndexFrom(t, "\n\n", b + 1) \in (b + 1)..(c - 1)

\* a manifest that is absent, or from which no section gets content
NoSections(m) == IsAbsent(m) \/ (~Truthy(m.summary) /\ m.scenes = <<>>)
NoQuestions(m) == IsAbsent(m) \/ m.questions = <<>>

\* C11: assemble called with no video manifest and no quiz manifest (absent, or
\* manifests from which no section gets content) does not fail and returns
\* exactly 'No context available.'.
C11_NoContextFallback ==
    ( /\ asm.step = "done"
      /\ asm.limit = MAX_CONTEXT_CHARACTERS
      /\ NoSections(asm.video)
      /\ NoQuestions(asm.quiz) )
    => /\ ~asm.out.raised
       /\ asm.out.text = "No context available."

\* the number of places at which sub occurs in s
CountOf(s, sub) ==
    Cardinality({ i \in 1..(Len(s) - Len(sub) + 1) : SubSeq(s, i, i + Len(sub) - 1) = sub })

\* the scenes and questions a call site considers
SceneLimit == IF asm.variant = "text" THEN 6 ELSE MAX_SCENES
QuestionLimit == IF asm.variant = "text" THEN 5 ELSE 3

\* the resolved text of a scene: text, else narration
ResolvedText(scene) == Or2(scene.text, scene.narration)

\* what the assembler under test returns for a video manifest
Assembled(video) ==
    IF asm.variant = "text"
    THEN build_context_text(video, asm.quiz, asm.limit)
    ELSE build_context(video, asm.quiz, asm.limit)

\* C22: assemble considers only the first 6 (8 at the other call site) entries
\* of video.scenes (it returns what it returns for the manifest cut to that
\* prefix), it emits at most that many scene lines, and none for a scene whose
\* resolved text (text, else narration) is empty.
C22_ScenePrefix ==
    AsmReturned =>
        LET considered == Take(asm.video.scenes, SceneLimit)
            with_text == { i \in 1..Len(considered) : Truthy(ResolvedText(considered[i])) }
        IN  /\ asm.out = Assembled([asm.video EXCEPT !.scenes = considered])
            /\ CountOf(asm.out.text, "- ") <= SceneLimit
            /\ CountOf(asm.out.text, "- ") <= Cardinality(with_text)

\* correctIndex is an integer within the index range of options
ValidIndex(question) ==
    /\ question.correctIndex.kind = "int"
    /\ 0 <= question.correctIndex.val
    /\ question.correctIndex.val < Len(question.options)

\* C23: called on manifests that are present, within the limit, assemble does
\* not fail, and of the first 5 (3 at the other call site) questions exactly
\* those whose correctIndex is an integer within the range of options get an
\* entry, 'Q: {text}' followed by 'A: {options[correctIndex]}'; a question whose
\* correctIndex is missing, not an integer or out of range gets none.
C23_QuizEntries ==
    ( /\ asm.step = "done"
      /\ asm.limit = MAX_CONTEXT_CHARACTERS
      /\ ~IsAbsent(asm.video)
      /\ ~IsAbsent(asm.quiz) )
    => /\ ~asm.out.raised
       /\ LET considered == Take(asm.quiz.questions, QuestionLimit)
              valid == { i \in 1..Len(considered) : ValidIndex(considered[i]) }
          IN  /\ CountOf(asm.out.text, "Q: ") = Cardinality(valid)
              /\ \A i \in valid :
                    \E sep \in {"\n", " "} :
                       IndexFrom(asm.out.text,
                                 "Q: " \o Or2(considered[i].text, considered[i].question) \o sep
                                   \o "A: "
                                   \o considered[i].options[considered[i].correctIndex.val + 1],
                                 1) > 0

----------------------------------------------------------------------------
(* Chat: shared_blob.py generate_stub_video, _download_text,               *)
(* load_processed_video, load_processed_quiz; chatbot/__init__.py main;    *)
(* chatbot/chat_logic.py handle_request                                    *)

\* The content of a stored object: a JSON object, or a text json.loads rejects.
JsonObject(value) == [json |-> "object", value |-> value]
NotJson == [json |-> "invalid"]

\* generate_stub_video: the fields of the stub the chat reads
generate_stub_video(doc_name) ==
    [summary |-> "High-level overview of " \o doc_name,
     scenes |-> << Scene("Introduction", None, "Overview", "1", "Overview of " \o doc_name, None),
                   Scene("Key Concepts", None, "Highlights", "2",
                         "Key concepts highlighted in the knowledge transfer document.", None) >>]

\* _download_text followed by json.loads: the manifest, or None when there is
\* no client, the download raises (mode) or the text is not JSON
download_json(contents, container, blob_name, mode) ==
    IF mode = "ok" /\ <<container, blob_name>> \in DOMAIN contents
       /\ contents[<<container, blob_name>>].json = "object"
    THEN contents[<<container, blob_name>>].value
    ELSE NoManifest

load_processed_video(doc_base, listed, contents, mode) ==
    LET art == find_processed_artifacts(doc_base, listed)
    IN  IF art.raised THEN [raised |-> TRUE, value |-> NoManifest]
        ELSE [raised |-> FALSE,
              value |-> IF art.video = None THEN NoManifest
                        ELSE download_json(contents, VIDEO_CONTAINER, art.video, mode)]

load_processed_quiz(doc_base, listed, contents, mode) ==
    LET art == find_processed_artifacts(doc_base, listed)
    IN  IF art.raised THEN [raised |-> TRUE, value |-> NoManifest]
        ELSE [raised |-> FALSE,
              value |-> IF art.quiz = None THEN NoManifest
                        ELSE download_json(contents, QUIZ_CONTAINER, art.quiz, mode)]

\* chatbot/__init__.py _load_context
load_context(doc_name, listed, contents, mode) ==
    LET v == load_processed_video(doc_name, listed, contents, mode)
        q == load_processed_quiz(doc_name, listed, contents, mode)
    IN  [raised |-> v.raised \/ q.raised,
         video |-> IF IsAbsent(v.value) THEN generate_stub_video(doc_name) ELSE v.value,
         quiz |-> IF IsAbsent(q.value) THEN [questions |-> <<>>] ELSE q.value]

\* How the completion call goes. The call returns a body with an answer ("ok"),
\* with an empty answer, whose message has no content, without choices, whose
\* message is null, that is a JSON list, or that is not JSON; it returns a
\* status >= 400; or requests raises (connection, timeout). response.json()
\* raises requests' JSONDecodeError, a RequestException, from requests 2.27 on
\* ("invalid_json") and a plain ValueError before ("invalid_json_legacy").
Completions ==
    { "ok", "ok_empty", "no_content", "no_choices", "message_null", "not_object",
      "invalid_json", "invalid_json_legacy", "http_error", "network", "timeout" }

CompletionAnswer == "Answer. "

\* chatbot/__init__.py _call_azure_openai: the answer, or the exception that
\* leaves it (only requests.RequestException is caught)
call_azure_openai(configured, outcome) ==
    IF ~configured THEN [raised |-> FALSE, called |-> FALSE, answer |-> None]
    ELSE IF outcome \in {"network", "timeout", "http_error", "invalid_json",
                         "no_choices", "no_content"}
    THEN [raised |-> FALSE, called |-> TRUE, answer |-> None]
    ELSE IF outcome \in {"invalid_json_legacy", "not_object", "message_null"}
    THEN [raised |-> TRUE, called |-> TRUE, answer |-> None]
    ELSE [raised |-> FALSE, called |-> TRUE,
          answer |-> IF outcome = "ok" THEN CompletionAnswer ELSE ""]

\* chatbot/__init__.py _format_sources
format_sources(video) ==
    LET scenes == Take(video.scenes, 3)
        sources == [i \in 1..Len(scenes) |->
                      [title |-> Or2(scenes[i].title, "Scene"),
                       snippet |-> Or3(scenes[i].text, scenes[i].narration, "")]]
    IN  IF sources = <<>> /\ Truthy(video.summary)
        THEN << [title |-> "Summary", snippet |-> video.summary] >>
        ELSE sources

DefaultMaxChars == 6000     \* max_chars of _build_context_text

FallbackPrefix ==
    "I wasn't able to reach the AI service right now, but here's what the storyboard summary says:\n"
FallbackApology == "I couldn't retrieve enough context to answer that."

ChatError(variant, status, error) ==
    [op |-> "chat", variant |-> variant, status |-> status, error |-> error]

\* What serving a request did: the completion call made and with what context,
\* whether the configuration was read, and the base the storage was searched for
NoCall == [completion |-> "none", context |-> None, summary |-> None,
           config |-> FALSE, lookup |-> FALSE, doc |-> None]

\* the storage was searched for doc, and the request ended without a completion call
Looked(doc, config) == [NoCall EXCEPT !.lookup = TRUE, !.doc = doc, !.config = config]

\* chatbot/__init__.py main from _call_azure_openai on
chat_reply(doc_name, loaded, context, configured, outcome) ==
    LET completion == call_azure_openai(configured, outcome)
        call == [completion |-> IF completion.called THEN outcome ELSE "none",
                 context |-> context.text, summary |-> loaded.video.summary,
                 config |-> TRUE, lookup |-> TRUE, doc |-> doc_name]
    IN  IF loaded.raised \/ context.raised
        THEN [resp |-> ChatError("main", 500, "exception"), call |-> Looked(doc_name, FALSE)]
        ELSE IF completion.raised
        THEN [resp |-> ChatError("main", 500, "exception"), call |-> call]
        ELSE [resp |-> [op |-> "chat", variant |-> "main", status |-> 200,
                        answer |-> IF Truthy(completion.answer) THEN completion.answer
                                   ELSE FallbackPrefix
                                          \o Or2(loaded.video.summary, FallbackApology),
                        sources |-> format_sources(loaded.video)],
              call |-> call]

\* chatbot/__init__.py main: the response (an exception that leaves main is the
\* host's 500) and the completion call it made.
\* req: method, body "object" | "list" | "invalid", and the body's fields
\* (None when absent).
chat_main(req, listed, contents, mode, configured, outcome) ==
    IF req.body = "invalid"
    THEN [resp |-> ChatError("main", 400, "Invalid JSON payload."), call |-> NoCall]
    ELSE IF req.body = "list"
    THEN [resp |-> ChatError("main", 500, "exception"), call |-> NoCall]
    ELSE
    LET question == strip(Or3(req.question, req.message, ""))
        doc_field == Or3(req.docName, req.doc, req.document)
        doc_name == IF doc_field = None THEN None ELSE strip(doc_field)
    IN  IF question = ""
        THEN [resp |-> ChatError("main", 400, "Question is required."), call |-> NoCall]
        ELSE IF ~Truthy(doc_name)
        THEN [resp |-> ChatError("main", 400, "docName is required."), call |-> NoCall]
        ELSE
        CHOOSE r \in { chat_reply(doc_name, ctx[1], ctx[2], configured, outcome) :
                         ctx \in { <<loaded, build_context_text(loaded.video, loaded.quiz,
                                                                DefaultMaxChars)>> :
                                     loaded \in {load_context(doc_name, listed, contents, mode)} } } :
            TRUE

\* chat_logic.py _invoke_chat_completion: the answer, None when the call failed
invoke_chat_completion(outcome) ==
    IF outcome = "ok" THEN CompletionAnswer ELSE None

\* chat_logic.py handle_request from load_processed_video on
chat_logic_reply(doc_name, video, quiz, outcome) ==
    LET context_block == build_context(video.value, quiz.value, MAX_CONTEXT_CHARACTERS)
        answer == invoke_chat_completion(outcome)
        call == [completion |-> outcome, context |-> context_block.text,
                 summary |-> video.value.summary,
                 config |-> TRUE, lookup |-> TRUE, doc |-> doc_name]
    IN  IF video.raised
        THEN [resp |-> ChatError("logic", 500, "exception"), call |-> Looked(doc_name, TRUE)]
        ELSE IF IsAbsent(video.value)
        THEN [resp |-> ChatError("logic", 404, "No processed video manifest found for "
                                                  \o doc_name),
              call |-> Looked(doc_name, TRUE)]
        ELSE IF quiz.raised \/ context_block.raised
        THEN [resp |-> ChatError("logic", 500, "exception"), call |-> Looked(doc_name, TRUE)]
        ELSE IF context_block.text = ""
        THEN [resp |-> ChatError("logic", 500, "Unable to build context for chat"),
              call |-> Looked(doc_name, TRUE)]
        ELSE IF answer = None
        THEN [resp |-> ChatError("logic", 502, "Chat completion request failed"),
              call |-> call]
        ELSE [resp |-> [op |-> "chat", variant |-> "logic", status |-> 200,
                        answer |-> strip(answer), docName |-> doc_name],
              call |-> call]

\* chat_logic.py handle_request: the response and the completion call it made
handle_request(req, listed, contents, mode, configured, outcome) ==
    LET isdict == req.body = "object"
        doc_name == IF isdict THEN Or2(req.docName, req.document) ELSE None
        question == IF isdict THEN Or2(req.question, req.prompt) ELSE None
    IN  IF req.method = "OPTIONS"
        THEN [resp |-> [op |-> "chat", variant |-> "logic", status |-> 200, body |-> ""],
              call |-> NoCall]
        ELSE IF req.method # "POST"
        THEN [resp |-> ChatError("logic", 405, "Only POST supported"), call |-> NoCall]
        ELSE IF ~Truthy(doc_name)
        THEN [resp |-> ChatError("logic", 400, "Missing docName"), call |-> NoCall]
        ELSE IF ~Truthy(question)
        THEN [resp |-> ChatError("logic", 400, "Missing question"), call |-> NoCall]
        ELSE IF ~configured
        THEN [resp |-> ChatError("logic", 503,
                                 "Azure OpenAI environment variables are not configured."),
              call |-> [NoCall EXCEPT !.config = TRUE]]
        ELSE
        CHOOSE r \in { chat_logic_reply(doc_name, video, quiz, outcome) :
                         video \in {load_processed_video(doc_name, listed, contents, mode)},
                         quiz \in {load_processed_quiz(doc_name, listed, contents, mode)} } :
            TRUE

----------------------------------------------------------------------------
(* Specification SpecChat: the external pipeline writes manifests, chat    *)
(* requests are served                                                     *)

ChatVideos ==
    { [summary |-> "Overview", scenes |-> <<ScenePool[1]>>],
      [summary |-> None, scenes |-> <<ScenePool[2]>>],
      [summary |-> "", scenes |-> <<>>] }

ChatQuizzes == { [questions |-> <<QuestionPool[1]>>] }

\* what the pipeline can write: container, name, content
ChatWrites ==
    { <<VIDEO_CONTAINER, "doc.video.json", JsonObject(v)>> : v \in ChatVideos }
    \cup { <<VIDEO_CONTAINER, "doc.video.json", NotJson>>,
           <<VIDEO_CONTAINER, "20250101120000_Other.txt.video.json",
             JsonObject([summary |-> " two\nwords ", scenes |-> <<>>])>> }
    \cup { <<QUIZ_CONTAINER, "doc.quiz.json", JsonObject(q)>> : q \in ChatQuizzes }
    \cup { <<QUIZ_CONTAINER, "doc.quiz.json", NotJson>> }

ChatBody(body, question, message, prompt, docName, doc, document) ==
    [body |-> body, question |-> question, message |-> message, prompt |-> prompt,
     docName |-> docName, doc |-> doc, document |-> document]

ChatBodies ==
    { ChatBody("object", "What?", None, None, "Doc", None, None),
      ChatBody("object", None, " What? ", None, None, " Doc ", None),
      ChatBody("object", None, None, "What?", None, None, "other"),
      ChatBody("object", "  ", None, None, "Doc", None, None),
      ChatBody("object", "What?", None, None, None, None, None),
      ChatBody("list", None, None, None, None, None, None),
      ChatBody("invalid", None, None, None, None, None, None) }

ChatRequests ==
    { [method |-> m] @@ b : m \in {"POST"}, b \in ChatBodies }
    \cup { [method |-> m] @@ ChatBody("object", "What?", None, None, "Doc", None, None) :
             m \in {"OPTIONS", "GET"} }

InitChat ==
    /\ blobs = EmptyStore
    /\ data = NoData
    /\ mem = NoData
    /\ clock = 1
    /\ seen = NoCall
    /\ resp = NoResp
    /\ codec = CodecIdle
    /\ asm = AsmIdle
    /\ log = {}

\* The external pipeline writes one manifest, between two requests.
ChatExternalWrite(c, name, content) ==
    /\ resp = NoResp
    /\ ObjectCount(blobs) < MaxObjects
    /\ name \notin Range(blobs[c])
    /\ blobs' = [blobs EXCEPT ![c] = Append(@, name)]
    /\ data' = (<<c, name>> :> content) @@ data
    /\ UNCHANGED <<mem, clock, seen, resp, codec, asm, log>>

\* the listings one request gets when those of the containers in failed fail
ChatListings(failed) ==
    listings_of(blobs, [c \in ArtifactContainers |-> IF c \in failed THEN "error" ELSE "ok"])

\* POST /chatbot served by chatbot/__init__.py main; requests are served one
\* after the other, and without configuration there is no completion call whose
\* outcome could vary
ChatMain(req, failed, mode, configured, outcome) ==
    /\ resp = NoResp
    /\ configured \/ outcome = "ok"
    /\ \E r \in {chat_main(req, ChatListings(failed), data, mode, configured, outcome)} :
        /\ resp' = r.resp
        /\ seen' = [req |-> req, configured |-> configured] @@ r.call
        /\ UNCHANGED <<blobs, data, mem, clock, codec, asm, log>>

\* the chat request served by chat_logic.py handle_request
ChatHandleRequest(req, failed, mode, configured, outcome) ==
    /\ resp = NoResp
    /\ configured \/ outcome = "ok"
    /\ \E r \in {handle_request(req, ChatListings(failed), data, mode, configured, outcome)} :
        /\ resp' = r.resp
        /\ seen' = [req |-> req, configured |-> configured] @@ r.call
        /\ UNCHANGED <<blobs, data, mem, clock, codec, asm, log>>

\* The response goes out to the caller; the next request can be served.
ChatRespond ==
    /\ resp # NoResp
    /\ resp' = NoResp
    /\ seen' = NoCall
    /\ UNCHANGED <<blobs, data, mem, clock, codec, asm, log>>

NextChat ==
    \/ \E w \in ChatWrites : ChatExternalWrite(w[1], w[2], w[3])
    \/ \E req \in ChatRequests : \E failed \in SUBSET {VIDEO_CONTAINER, QUIZ_CONTAINER} :
         \E mode \in {"ok", "error"} : \E configured \in BOOLEAN : \E outcome \in Completions :
            \/ ChatMain(req, failed, mode, configured, outcome)
            \/ ChatHandleRequest(req, failed, mode, configured, outcome)
    \/ ChatRespond

SpecChat == InitChat /\ [][NextChat]_vars

\* the outcomes of the completion call that are failures of the upstream
UpstreamErrors ==
    { "network", "timeout", "http_error", "invalid_json", "invalid_json_legacy",
      "not_object", "no_choices", "message_null", "no_content" }

\* C7: when the completion call fails (network failure, timeout, status that is
\* not 2xx, malformed or unexpected body), the chat request is answered with
\* success, and the answer says the AI service was unreachable and contains the
\* video's summary, or the apology when there is no summary.
C7_FallbackOnUpstreamError ==
    (resp.op = "chat" /\ seen.completion \in UpstreamErrors) =>
        /\ resp.status = 200
        /\ IndexFrom(resp.answer, FallbackPrefix, 1) = 1
        /\ IndexFrom(resp.answer, Or2(seen.summary, FallbackApology), 1) > 0

\* the question and the document base a request carries, under the field names
\* the orchestrator that serves it accepts; None without a JSON object as body
QuestionOf(variant, req) ==
    IF req.body # "object" THEN None
    ELSE IF variant = "main" THEN Or2(req.question, req.message)
    ELSE Or2(req.question, req.prompt)

BaseOf(variant, req) ==
    IF req.body # "object" THEN None
    ELSE IF variant = "main" THEN Or3(req.docName, req.doc, req.document)
    ELSE Or2(req.docName, req.document)

\* C17: a chat request whose question or document base is missing or empty is
\* answered with 400, and serving it neither searches the storage, nor reads
\* the configuration, nor calls the completion service.
C17_ValidationFirst ==
    ( /\ resp.op = "chat"
      /\ seen.req.method = "POST"
      /\ \/ ~Truthy(QuestionOf(resp.variant, seen.req))
         \/ ~Truthy(BaseOf(resp.variant, seen.req)) )
    => /\ resp.status = 400
       /\ ~seen.lookup
       /\ ~seen.config
       /\ seen.completion = "none"

\* C18: when the configuration of the completion service is read and found
\* incomplete, the chat request is answered with 503 and no completion call is
\* made.
C18_ConfigShortCircuit ==
    (resp.op = "chat" /\ seen.config /\ ~seen.configured)
    => /\ resp.status = 503
       /\ seen.completion = "none"

\* C19: a chat request for a base without a stored video manifest (the
\* completion call, if made, going well) is answered with success; with no quiz
\* manifest stored either, the context is that of the placeholder video
\* manifest of the base and an empty question list.
C19_PlaceholderWhenNoVideo ==
    ( /\ resp.op = "chat"
      /\ seen.lookup
      /\ seen.completion \in {"none", "ok"}
      /\ Matching("video", blobs[VIDEO_CONTAINER], seen.doc) = {} )
    => /\ resp.status = 200
       /\ Matching("quiz", blobs[QUIZ_CONTAINER], seen.doc) = {}
            => seen.context = build_context_text(generate_stub_video(seen.doc),
                                                 [questions |-> <<>>], DefaultMaxChars).text

----------------------------------------------------------------------------
(* Specification SpecEngine: every operation of the engine on one store    *)

\* video/__init__.py main
video_main(doc, listed, contents, mode) ==
    IF ~Truthy(doc)
    THEN [op |-> "video", status |-> 400, error |-> "Missing docName"]
    ELSE LET real == load_processed_video(doc, listed, contents, mode)
         IN  IF real.raised
             THEN [op |-> "video", status |-> 500, error |-> "exception"]
             ELSE [op |-> "video", status |-> 200,
                   payload |-> IF IsAbsent(real.value) THEN generate_stub_video(doc)
                               ELSE real.value]

\* what the pipeline can write: container, name, content
EngineWrites ==
    { <<VIDEO_CONTAINER, "doc.video.json", JsonObject([summary |-> "Overview", scenes |-> <<ScenePool[1]>>])>>,
      <<VIDEO_FILE_CONTAINER, "doc.mp4", NotJson>>,
      <<QUIZ_CONTAINER, "doc.quiz.json", JsonObject([questions |-> <<QuestionPool[1]>>])>> }

EngineDocs == { "Doc", "other", "" }
EngineRequests ==
    DocsRequests
        \cup { [method |-> "POST", qname |-> "a.txt", body |-> PlainBody("text", "bye", 3)],
               [method |-> "GET", qname |-> "a.txt", body |-> PlainBody("text", "bye", 3)] }
EngineChat == [method |-> "POST"] @@ ChatBody("object", "What?", None, None, "Doc", None, None)

\* One request at a time; between two requests the pipeline may write.
EngineExternalWrite(c, name, content) ==
    /\ resp = NoResp
    /\ ObjectCount(blobs) < MaxObjects
    /\ name \notin Range(blobs[c])
    /\ blobs' = [blobs EXCEPT ![c] = Append(@, name)]
    /\ data' = (<<c, name>> :> content) @@ data
    /\ UNCHANGED <<mem, clock, seen, resp, codec, asm, log>>

\* (mutant) the upload replaces what uploaded-docs held
EngineUpload_replacing(req, mode) ==
    /\ resp = NoResp
    /\ \E r \in {upload_handle(req, mode, clock)} :
        /\ resp' = r.resp
        /\ seen' = [write |-> IF r.save.target = "none" THEN "none" ELSE mode, req |-> req]
        /\ blobs' = IF r.save.target = "blob"
                    THEN [blobs EXCEPT ![UPLOAD_CONTAINER] = <<r.save.blob_name>>]
                    ELSE blobs
        /\ data' = IF r.save.target = "blob"
                   THEN (<<UPLOAD_CONTAINER, r.save.blob_name>> :> r.save.content) @@ data
                   ELSE data
        /\ mem' = IF r.save.target = "memory"
                  THEN (r.save.blob_name :> r.save.content) @@ mem
                  ELSE mem
        /\ log' = IF r.save.target = "none" THEN log
                  ELSE log \cup {[name |-> r.save.name, stored |-> r.save.target = "blob",
                                  saved |-> r.save.blob_name,
                                  doc |-> r.resp.docName]}
        /\ UNCHANGED <<clock, codec, asm>>

EngineUpload(req, mode) == resp = NoResp /\ Upload(req, mode)

EngineStatus(doc, failed) ==
    /\ resp = NoResp
    /\ seen' = [failed |-> failed]
    /\ resp' = status_main(doc, ChatListings(failed))
    /\ UNCHANGED <<blobs, data, mem, clock, codec, asm, log>>

EngineVideo(doc, failed, mode) ==
    /\ resp = NoResp
    /\ seen' = [failed |-> failed]
    /\ resp' = video_main(doc, ChatListings(failed), data, mode)
    /\ UNCHANGED <<blobs, data, mem, clock, codec, asm, log>>

EngineListDocs(failed) == ListDocs(failed, "error")

EngineChat1(configured) ==
    /\ resp = NoResp
    /\ \E r \in {chat_main(EngineChat, ChatListings({}), data, "ok", configured, "ok")} :
        /\ resp' = r.resp
        /\ seen' = r.call
        /\ UNCHANGED <<blobs, data, mem, clock, codec, asm, log>>

EngineChat2(configured) ==
    /\ resp = NoResp
    /\ \E r \in {handle_request(EngineChat, ChatListings({}), data, "ok", configured, "ok")} :
        /\ resp' = r.resp
        /\ seen' = r.call
        /\ UNCHANGED <<blobs, data, mem, clock, codec, asm, log>>

EngineTick == resp = NoResp /\ Tick

NextEngine ==
    \/ \E w \in EngineWrites : EngineExternalWrite(w[1], w[2], w[3])
    \/ \E req \in EngineRequests : \E mode \in WriteModes : EngineUpload(req, mode)
    \/ \E doc \in EngineDocs : \E failed \in PollFailures : EngineStatus(doc, failed)
    \/ \E doc \in EngineDocs : \E failed \in PollFailures : \E mode \in {"ok", "error"} :
         EngineVideo(doc, failed, mode)
    \/ \E failed \in DocsFailures : EngineListDocs(failed)
    \/ \E configured \in BOOLEAN : EngineChat1(configured)
    \/ \E configured \in BOOLEAN : EngineChat2(configured)
    \/ EngineTick
    \/ DocsRespond

SpecEngine == InitUpload /\ [][NextEngine]_vars

ReadOps == {"status", "video", "documents", "chat"}

\* the objects of uploaded-docs that are new, or whose content is new, after a step
Written ==
    { n \in Range(blobs'[UPLOAD_CONTAINER]) :
        \/ n \notin Range(blobs[UPLOAD_CONTAINER])
        \/ data'[<<UPLOAD_CONTAINER, n>>] # data[<<UPLOAD_CONTAINER, n>>] }

\* C20: serving a status, video, documents or chat request leaves the names and
\* the contents of all four containers as they were; serving an upload keeps
\* every stored object, leaves the three artifact containers as they were, and
\* writes at most one object of uploaded-docs: the one it reports, when the
\* storage write went through, and none otherwise.
C20_NeverDeletesOrAlters ==
    [][ /\ (resp = NoResp /\ resp'.op \in ReadOps) => (blobs' = blobs /\ data' = data)
        /\ (resp = NoResp /\ resp'.op = "upload") =>
              /\ \A c \in ArtifactContainers : blobs'[c] = blobs[c]
              /\ \A k \in DOMAIN data :
                    k[1] # UPLOAD_CONTAINER => (k \in DOMAIN data' /\ data'[k] = data[k])
              /\ Range(blobs[UPLOAD_CONTAINER]) \subseteq Range(blobs'[UPLOAD_CONTAINER])
              /\ IF resp'.status = 200 /\ seen'.write = "ok"
                 THEN /\ Written \subseteq {resp'.savedAs}
                      /\ resp'.savedAs \in Range(blobs'[UPLOAD_CONTAINER])
                      /\ data'[<<UPLOAD_CONTAINER, resp'.savedAs>>].text = seen'.req.body.text
                 ELSE Written = {}
      ]_vars

\* a second upload is stored next to the first while generated-videos holds a
\* manifest
C20_Witness ==
    /\ resp.op = "upload"
    /\ resp.status = 200
    /\ seen.write = "ok"
    /\ Len(blobs[UPLOAD_CONTAINER]) = 2
    /\ resp.savedAs = blobs[UPLOAD_CONTAINER][2]
    /\ data[<<UPLOAD_CONTAINER, blobs[UPLOAD_CONTAINER][1]>>].text = "bye"
    /\ blobs[VIDEO_CONTAINER] = <<"doc.video.json">>

----------------------------------------------------------------------------
(* Transcript: chatbot/chat_logic.py _build_messages and the messages of   *)
(* the payload of chatbot/__init__.py _call_azure_openai                   *)

\* An entry of history: a JSON object with its role and content (None when
\* the key is absent or null, NonStr for a number, Unhashable for a list), or
\* a JSON value that is not an object.
Unhashable == "<[]>"

HistoryEntry(role, content) == [dict |-> TRUE, role |-> role, content |-> content]
NotAnEntry == [dict |-> FALSE, role |-> None, content |-> None]

\* history of the request body: absent or null, a list of entries, or a number
NoHistory == [kind |-> "none", items |-> <<>>]
HistoryList(items) == [kind |-> "list", items |-> items]
HistoryNumber == [kind |-> "number", items |-> <<>>]

IsStr(x) == x \notin {None, NonStr, Unhashable}

\* The system instructions (chat_logic.py's names the bot in quotes first).
SystemPromptLogic ==
    "an upbeat assistant that answers questions about "
    \o "enterprise knowledge transfer documents. Use only the context provided. If the context "
    \o "does not contain the answer, say you do not know. Keep answers precise (2-4 sentences) "
    \o "and cite scene titles when relevant."

SystemPromptMain ==
    "You are a helpful Q&A assistant for knowledge transfer content. "
    \o "Answer using the provided context. If the answer is not in the context, "
    \o "say you do not know."

Message(role, content) == [role |-> role, content |-> content]

\* chat_logic.py _build_messages: the messages kept from history, in order
RECURSIVE history_messages(_)
history_messages(items) ==
    IF items = <<>> THEN <<>>
    ELSE LET entry == items[1]
             keep == /\ entry.dict
                     /\ entry.role \in {"user", "assistant", "system"}
                     /\ IsStr(entry.content)
                     /\ strip(entry.content) # ""
         IN  (IF keep THEN <<Message(entry.role, strip(entry.content))>> ELSE <<>>)
                \o history_messages(Tail(items))

\* chat_logic.py _build_messages(question, context_block, history); iterating a
\* number and hashing a role that is a list raise TypeError
build_messages(question, context_block, history) ==
    LET prompt == "Context:\n" \o context_block \o "\n\n"
                    \o "Question: " \o strip(question) \o "\n\n"
                    \o "Answer strictly from the context. If you reference a scene, "
                    \o "include its title in parentheses."
    IN  IF \/ history.kind = "number"
           \/ \E i \in 1..Len(history.items) :
                 history.items[i].dict /\ history.items[i].role = Unhashable
        THEN [raised |-> TRUE, messages |-> <<>>]
        ELSE [raised |-> FALSE,
              messages |-> <<Message("system", SystemPromptLogic)>>
                             \o history_messages(history.items)
                             \o <<Message("user", prompt)>>]

\* chatbot/__init__.py _call_azure_openai(question, context): payload["messages"]
call_azure_openai_messages(question, context) ==
    << Message("system", SystemPromptMain),
       Message("user", "Context:\n" \o context \o "\n---\nQuestion: " \o question
                         \o "\nAnswer concisely in 3-4 sentences.") >>

----------------------------------------------------------------------------
(* Specification SpecTranscript: the two orchestrators build the           *)
(* transcript of a chat request from its question, its history and the    *)
(* assembled context                                                       *)

MaxHistory == 2     \* entries of history in a request

HistoryPool ==
    { HistoryEntry("user", "Hi"), HistoryEntry("assistant", " Hello "),
      HistoryEntry("system", " "), HistoryEntry("tool", "x"), HistoryEntry("user", ""),
      HistoryEntry(None, "y"), HistoryEntry("user", NonStr), HistoryEntry(Unhashable, "z"),
      NotAnEntry }

Histories ==
    { NoHistory, HistoryNumber }
        \cup { HistoryList(items) :
                 items \in UNION { [1..n -> HistoryPool] : n \in 0..MaxHistory } }

TranscriptQuestions == { "What?", " Why? " }
TranscriptContexts == { "Summary: Overview", "Document Summary:\nOverview" }

NoTranscript ==
    [variant |-> "none", question |-> None, context |-> None, history |-> NoHistory,
     out |-> [raised |-> FALSE, messages |-> <<>>]]

InitTranscript ==
    /\ blobs = EmptyStore
    /\ data = NoData
    /\ mem = NoData
    /\ clock = 1
    /\ seen = NoTranscript
    /\ resp = NoResp
    /\ codec = CodecIdle
    /\ asm = AsmIdle
    /\ log = {}

\* chat_logic.py handle_request, lines 69 and 92: history is read from the
\* body and the transcript is built from it.
BuildMessages(question, context, history) ==
    /\ seen = NoTranscript
    /\ seen' = [variant |-> "logic", question |-> question, context |-> context,
                history |-> history,
                out |-> build_messages(question, context, history)]
    /\ UNCHANGED <<blobs, data, mem, clock, resp, codec, asm, log>>

\* chatbot/__init__.py main, lines 143 to 159: the question is stripped, the
\* history of the body is never read.
CallAzureOpenAI(question, context, history) ==
    /\ seen = NoTranscript
    /\ seen' = [variant |-> "main", question |-> question, context |-> context,
                history |-> history,
                out |-> [raised |-> FALSE,
                         messages |-> call_azure_openai_messages(strip(question), context)]]
    /\ UNCHANGED <<blobs, data, mem, clock, resp, codec, asm, log>>

\* The request is answered; the next one is served.
TranscriptRespond ==
    /\ seen # NoTranscript
    /\ seen' = NoTranscript
    /\ UNCHANGED <<blobs, data, mem, clock, resp, codec, asm, log>>

NextTranscript ==
    \/ \E q \in TranscriptQuestions, c \in TranscriptContexts, h \in Histories :
          \/ BuildMessages(q, c, h)
          \/ CallAzureOpenAI(q, c, h)
    \/ TranscriptRespond

SpecTranscript == InitTranscript /\ [][NextTranscript]_vars

\* an entry of history that the transcript is to keep
WellFormed(e) ==
    e.dict /\ e.role \in {"user", "assistant", "system"} /\ IsStr(e.content) /\ e.content # ""

Contains(s, sub) == IndexFrom(s, sub, 1) > 0

TranscriptSent == seen.variant # "none" /\ ~seen.out.raised

\* C21: the transcript sent to the completion service is one system
\* instruction, then exactly the entries of history whose role is user,
\* assistant or system and whose content is a non-empty string, in their order,
\* then one user turn that embeds the context and the question; its length is 2
\* plus the number of those entries.
C21_Transcript ==
    TranscriptSent =>
        LET m == seen.out.messages
            w == SelectSeq(seen.history.items, WellFormed)
        IN  /\ Len(m) = 2 + Len(w)
            /\ m[1].role = "system"
            /\ \A i \in 1..Len(w) : m[i + 1] = Message(w[i].role, w[i].content)
            /\ m[Len(m)].role = "user"
            /\ Contains(m[Len(m)].content, seen.context)
            /\ Contains(m[Len(m)].content, strip(seen.question))

----------------------------------------------------------------------------
(* Specification SpecAgree: the pipeline writes manifests, the known       *)
(* documents are listed (_extract_doc_base decodes the names) and          *)
(* find_processed_artifacts is called for a listed document                *)
(* (_match_processed tests the names)                                      *)

AgreeWrites ==
    { <<VIDEO_CONTAINER, "20250101120000_Doc.txt.video.json">>,
      <<VIDEO_CONTAINER, "a.b.video.json">>,
      <<VIDEO_CONTAINER, ".video.json">>,
      <<VIDEO_CONTAINER, "doc.quiz.json">>,
      <<QUIZ_CONTAINER, "DOC.quiz.json">>,
      <<QUIZ_CONTAINER, "20250101120000_a.pdf.quiz.json">> }

\* bases asked for besides the listed ones
AgreeBases == { "DOC", "a.b" }

\* the bases find_processed_artifacts can be asked for
AgreeDocs == { extract_doc_base(w[2]) : w \in AgreeWrites } \cup AgreeBases

\* The listings that fail in one call: none, one of the manifest containers, all
AgreeFailures == { {}, {VIDEO_CONTAINER}, {QUIZ_CONTAINER}, Containers }

NoAgree == [failed |-> {}, decoded |-> <<>>, matched |-> <<>>]

InitAgree ==
    /\ blobs = EmptyStore
    /\ data = NoData
    /\ mem = NoData
    /\ clock = 1
    /\ seen = NoAgree
    /\ resp = NoResp
    /\ codec = CodecIdle
    /\ asm = AsmIdle
    /\ log = {}

\* The external pipeline writes one object, also while the caller holds the
\* list of documents.
AgreeExternalWrite(c, name) ==
    /\ resp.op \in {"none", "documents"}
    /\ ObjectCount(blobs) < MaxObjects
    /\ name \notin Range(blobs[c])
    /\ blobs' = [blobs EXCEPT ![c] = Append(@, name)]
    /\ data' = (<<c, name>> :> "{}") @@ data
    /\ UNCHANGED <<mem, clock, seen, resp, codec, asm, log>>

\* list_known_doc_bases is called; the listings of the containers in failed
\* fail (why).  seen.decoded: what _extract_doc_base returned for each name.
AgreeList(failed, why) ==
    LET modes == [c \in Containers |-> IF c \in failed THEN why ELSE "ok"]
        listed == listings_of(blobs, modes)
        names == UNION { Range(listed[c].names) : c \in ArtifactContainers }
    IN  /\ resp = NoResp
        /\ \A c \in failed : why = "absent" => blobs[c] = <<>>
        /\ resp' = listdocs_main(blobs, mem, modes)
        /\ seen' = [failed |-> failed,
                    decoded |-> [n \in names |-> extract_doc_base(n)],
                    matched |-> <<>>]
        /\ UNCHANGED <<blobs, data, mem, clock, codec, asm, log>>

\* find_processed_artifacts(doc) is called for a listed document or another
\* base; the listings of the containers in failed fail (why).  seen.matched:
\* what _match_processed returns for doc and each name listed.
AgreeFind(doc, failed, why) ==
    LET modes == [c \in ArtifactContainers |-> IF c \in failed THEN why ELSE "ok"]
        listed == listings_of(blobs, modes)
        names == UNION { Range(listed[c].names) : c \in ArtifactContainers }
    IN  /\ resp.op = "documents"
        /\ doc \in Range(resp.documents) \cup AgreeBases
        /\ \A c \in failed : why = "absent" => blobs[c] = <<>>
        /\ resp' = [op |-> "find", doc |-> doc, documents |-> resp.documents,
                    artifacts |-> find_processed_artifacts(doc, listed)]
        /\ seen' = [failed |-> failed,
                    decoded |-> seen.decoded,
                    matched |-> [n \in names |-> match_processed(doc, n)]]
        /\ UNCHANGED <<blobs, data, mem, clock, codec, asm, log>>

\* The caller is done with the result.
AgreeRespond ==
    /\ resp.op = "find"
    /\ resp' = NoResp
    /\ seen' = NoAgree
    /\ UNCHANGED <<blobs, data, mem, clock, codec, asm, log>>

NextAgree ==
    \/ \E w \in AgreeWrites : AgreeExternalWrite(w[1], w[2])
    \/ \E failed \in AgreeFailures : \E why \in FailureModes(failed) : AgreeList(failed, why)
    \/ \E doc \in AgreeDocs : \E failed \in AgreeFailures :
         \E why \in FailureModes(failed) : AgreeFind(doc, failed, why)
    \/ AgreeRespond

SpecAgree == InitAgree /\ [][NextAgree]_vars

\* the two decoders agree on the names both were applied to
DecodersAgree ==
    \A n \in (DOMAIN seen.matched) \cap (DOMAIN seen.decoded) :
        seen.matched[n] <=> lower(seen.decoded[n]) = lower(resp.doc)

\* doc was reported by list_known_doc_bases because of a manifest in container c
ReportedFor(doc, c, suffix) ==
    /\ doc \in Range(resp.documents)
    /\ \E n \in (DOMAIN seen.decoded) \cap Range(blobs[c]) :
          endswith(n, suffix) /\ seen.decoded[n] = doc

\* C25 (as stated): _match_processed(b, n) holds exactly when
\* _extract_doc_base(n) equals b case-insensitively, and every base that
\* list_known_doc_bases reported because of a video (quiz) manifest gets a
\* non-null video (quiz) field from find_processed_artifacts.
C25_DecodersAgree ==
    resp.op = "find" =>
        /\ DecodersAgree
        /\ ReportedFor(resp.doc, VIDEO_CONTAINER, ".video.json")
              => resp.artifacts.video # None
        /\ ReportedFor(resp.doc, QUIZ_CONTAINER, ".quiz.json")
              => resp.artifacts.quiz # None

\* C25 (amended): the decoders agree, and a base reported because of a video
\* (quiz) manifest gets a non-null video (quiz) field provided the listing of
\* that container succeeds when find_processed_artifacts runs.
C25_DecodersAgreeListed ==
    resp.op = "find" =>
        /\ DecodersAgree
        /\ (ReportedFor(resp.doc, VIDEO_CONTAINER, ".video.json")
              /\ VIDEO_CONTAINER \notin seen.failed)
              => resp.artifacts.video # None
        /\ (ReportedFor(resp.doc, QUIZ_CONTAINER, ".quiz.json")
              /\ QUIZ_CONTAINER \notin seen.failed)
              => resp.artifacts.quiz # None

C25_Witness ==
    /\ resp.op = "find"
    /\ resp.doc = "Doc"
    /\ resp.documents = <<"DOC", "Doc">>
    /\ seen.failed = {}
    /\ resp.artifacts.video = "20250101120000_Doc.txt.video.json"
    /\ resp.artifacts.quiz = "DOC.quiz.json"
    /\ ReportedFor("Doc", VIDEO_CONTAINER, ".video.json")
    /\ ~ReportedFor("Doc", QUIZ_CONTAINER, ".quiz.json")

----------------------------------------------------------------------------
(* Specification SpecRace: status requests list the three containers one   *)
(* after another (find_processed_artifacts) while the external pipeline    *)
(* adds objects                                                            *)

RaceWrites ==
    { <<VIDEO_CONTAINER, "20250101120000_Doc.txt.video.json">>,
      <<VIDEO_CONTAINER, "other.video.json">>,
      <<VIDEO_FILE_CONTAINER, "doc.mp4">>,
      <<QUIZ_CONTAINER, "DOC.pdf.quiz.json">>,
      <<QUIZ_CONTAINER, "other.quiz.json">> }

RaceDocs == { "Doc", "other" }

\* How one listing goes
RaceModes == { "ok", "error" }

\* seen: pc, the listing the request in progress does next ("idle": none in
\* progress); doc, failed, listed: the document, the failed listings and the
\* listings of the last request; ready: the documents reported ready so far,
\* before: those reported ready before the last request; raced: an object was
\* written while the last request was in progress
NoRace == [pc |-> "idle", doc |-> "", failed |-> {}, listed |-> NoSeen.listed,
           ready |-> {}, before |-> {}, raced |-> FALSE]

InitRace ==
    /\ blobs = EmptyStore
    /\ data = NoData
    /\ mem = NoData
    /\ clock = 1
    /\ seen = NoRace
    /\ resp = NoResp
    /\ codec = CodecIdle
    /\ asm = AsmIdle
    /\ log = {}

\* The external pipeline adds one object, at any moment.
RaceWrite(c, name) ==
    /\ ObjectCount(blobs) < MaxObjects
    /\ name \notin Range(blobs[c])
    /\ blobs' = [blobs EXCEPT ![c] = Append(@, name)]
    /\ data' = (<<c, name>> :> "{}") @@ data
    /\ seen' = [seen EXCEPT !.raced = @ \/ seen.pc # "idle"]
    /\ UNCHANGED <<mem, clock, resp, codec, asm, log>>

\* GET /status/ without a docName: answered before any listing.
RaceMissingDoc ==
    /\ seen.pc = "idle"
    /\ resp' = status_main("", NoSeen.listed)
    /\ seen' = [seen EXCEPT !.doc = "", !.failed = {}, !.listed = NoSeen.listed,
                            !.before = seen.ready, !.raced = FALSE]
    /\ UNCHANGED <<blobs, data, mem, clock, codec, asm, log>>

\* GET /status/{doc} starts: _list_blobs(VIDEO_CONTAINER) returns.
RaceListVideo(doc, mode) ==
    /\ seen.pc = "idle"
    /\ seen' = [seen EXCEPT
                  !.pc = "files", !.doc = doc,
                  !.failed = IF mode = "ok" THEN {} ELSE {VIDEO_CONTAINER},
                  !.listed = [NoSeen.listed EXCEPT
                                ![VIDEO_CONTAINER] = list_blobs(blobs, VIDEO_CONTAINER, mode)],
                  !.before = seen.ready, !.raced = FALSE]
    /\ UNCHANGED <<blobs, data, mem, clock, resp, codec, asm, log>>

\* _list_blobs(VIDEO_FILE_CONTAINER) returns.
RaceListFiles(mode) ==
    /\ seen.pc = "files"
    /\ seen' = [seen EXCEPT
                  !.pc = "quiz",
                  !.failed = IF mode = "ok" THEN @ ELSE @ \cup {VIDEO_FILE_CONTAINER},
                  !.listed[VIDEO_FILE_CONTAINER] = list_blobs(blobs, VIDEO_FILE_CONTAINER, mode)]
    /\ UNCHANGED <<blobs, data, mem, clock, resp, codec, asm, log>>

\* _list_blobs(QUIZ_CONTAINER) returns and the response is produced.
RaceListQuiz(mode) ==
    LET listed == [seen.listed EXCEPT
                     ![QUIZ_CONTAINER] = list_blobs(blobs, QUIZ_CONTAINER, mode)]
    IN  \E r \in {status_main(seen.doc, listed)} :
          /\ seen.pc = "quiz"
          /\ resp' = r
          /\ seen' = [seen EXCEPT
                        !.pc = "idle",
                        !.failed = IF mode = "ok" THEN @ ELSE @ \cup {QUIZ_CONTAINER},
                        !.listed = listed,
                        !.ready = IF r.ready THEN @ \cup {seen.doc} ELSE @]
          /\ UNCHANGED <<blobs, data, mem, clock, codec, asm, log>>

NextRace ==
    \/ \E w \in RaceWrites : RaceWrite(w[1], w[2])
    \/ RaceMissingDoc
    \/ \E doc \in RaceDocs : \E mode \in RaceModes : RaceListVideo(doc, mode)
    \/ \E mode \in RaceModes : RaceListFiles(mode)
    \/ \E mode \in RaceModes : RaceListQuiz(mode)

SpecRace == InitRace /\ [][NextRace]_vars

\* C26: with writers that only add objects, at any moment of a status request:
\* a response that reports ready for b was produced with a matching video
\* manifest and a matching quiz manifest in storage, and a status call for a
\* base that an earlier call reported ready, none of its listings failing,
\* reports ready.
C26_ReadySoundAndStable ==
    StatusAnswered =>
        /\ resp.ready => ManifestsStored(resp.doc)
        /\ (seen.pc = "idle" /\ resp.doc \in seen.before /\ seen.failed = {}) => resp.ready

C26_Witness ==
    /\ StatusAnswered
    /\ seen.pc = "idle"
    /\ seen.raced
    /\ resp.doc = "Doc"
    /\ "Doc" \in seen.before
    /\ seen.failed = {}
    /\ resp.ready
    /\ seen.listed[VIDEO_CONTAINER].names # blobs[VIDEO_CONTAINER]

====
